---- MODULE Spec2Model ----
(***************************************************************************)
(* Verification model of the wikicube repository analysis pipeline:        *)
(*   - the bounded concurrency batch runner   (src/lib/batchOps.ts)        *)
(*   - the token-aware contextual chunker     (src/lib/chunker.ts)         *)
(*   - the retriable embedding batcher        (src/lib/openai/embeddings)  *)
(*   - the pipeline orchestrator              (src/lib/code-analyzer)      *)
(* Every component has its own specification over the shared variables.    *)
(***************************************************************************)
EXTENDS Integers, Sequences, FiniteSets, TLC

(* ---------------------------------------------------------------------- *)
(* Bounds of the model                                                     *)
(* ---------------------------------------------------------------------- *)
MaxItems == 6
MaxConcurrency == 5
MaxUnits == 2
MaxTexts == 15
MaxTopics == 2
ChunksPerTopic == 3
MaxChatFeatures == 16
MaxRelevantFiles == 31
MaxSameRows == 6
MaxRequests == 2
MaxReaders == 2
MaxBatches == 6
MaxDeltas == 3
MaxCalls == 3
MaxSlugTopics == 2
MaxLines == 4

(* ---------------------------------------------------------------------- *)
(* Generic helpers                                                         *)
(* ---------------------------------------------------------------------- *)
Min(a, b) == IF a <= b THEN a ELSE b
Max(a, b) == IF a >= b THEN a ELSE b

(* ---------------------------------------------------------------------- *)
(* Bounded concurrency batch runner: batchAll(items, fn, concurrency)      *)
(* ---------------------------------------------------------------------- *)
VARIABLES
  items,        \* the input array (1-based here, index i of the code is i+1)
  concurrency,  \* the concurrency argument
  results,      \* the pre-sized results array, EmptySlot where never written
  nextIndex,    \* the shared cursor
  workerIdx,    \* per worker: the index it awaits fn on, or a worker state
  started,      \* number of workers Array.from has called so far
  bstate,       \* "idle" | "starting" | "running" | "resolved" | "rejected"
  returned,     \* the array batchAll resolved to
  thrown,       \* the index whose rejection batchAll rejected with
  invoked,      \* per index: how many times fn was invoked for it
  written,      \* per index: how many times its result slot was written
  settledCount, \* number of fn calls that resolved so far
  outOfOrder    \* some later item completed before an earlier one

batchVars == <<items, concurrency, results, nextIndex, workerIdx, started,
               bstate, returned, thrown, invoked, written, settledCount,
               outOfOrder>>

\* state of the chunker call
VARIABLES
  chunkFn,      \* which chunker is called: "code" | "wiki" | "overview"
  chunkInput,   \* its input, as token counts
  chunkOutput,  \* the chunks it returned
  chunkPc       \* "call" | "returned"

chunkVars == <<chunkFn, chunkInput, chunkOutput, chunkPc>>

\* state of the generateEmbeddings call
VARIABLES
  texts,        \* the texts handed to generateEmbeddings
  embState,     \* "idle" | "call" | "running" | "returned"
  embStatus,    \* per batch: "unclaimed" | "inflight" | "ok" | "failed"
  embAttempts,  \* per batch: calls of the embedding service made so far
  embNext,      \* the batch runner's cursor over the batches
  embeddings    \* the vectors generateEmbeddings returned

embedVars == <<texts, embState, embStatus, embAttempts, embNext, embeddings>>

\* state of the pipeline run and of the database rows of its unit
VARIABLES
  wikiStatus,     \* wikis.status of the unit, "absent" while it has no row
  wikiOverview,   \* wikis.overview: "" | "old" | "new"
  featuresTable,  \* the unit's rows of table features
  chunksTable,    \* the unit's rows of table chunks
  pc,             \* the await runAnalysisPipeline is suspended at
  uPc,            \* upsertWiki: "idle" | "select" | "update" | "delete" |
                  \*             "insert" | "done" | "failed"
  deleted,        \* upsertWiki: which of the two parallel deletes completed
  tPc,            \* getRepoTree: "idle" | "inflight" | "ok" | "failed"
  identified,     \* number of identified features
  topicPc,        \* per identified feature: "unclaimed" | "fetch" |
                  \*   "generate" | "insert" | "ok" | "failed"
  pageNext,       \* cursor of the batch runner over the identified features
  fetched,        \* per identified feature: the paths its fetch returned
  features,       \* the Feature list generateAllPages returned
  sourceFiles,    \* the merged source file map: path -> content
  events,         \* every event passed to onEvent, in order
  failCause,      \* the step whose failure reached the catch
  statusLog,      \* the values this run wrote to wikis.status, in order
  clientGone,     \* the SSE client of /api/analyze disconnected
  lateFetches     \* paths of rejected getMultipleFiles calls whose workers
                  \* have not yet dealt with them (in flight or queued)

pipeVars == <<wikiStatus, wikiOverview, featuresTable, chunksTable, pc, uPc,
              deleted, tPc, identified, topicPc, pageNext, fetched, features,
              sourceFiles, events, failCause, statusLog, clientGone,
              lateFetches>>

\* state of a POST /api/chat request
VARIABLES
  chatPc,          \* "idle" | "start" | "embed" | "match" | "features" |
                   \*   "generate"
  chatOverview,    \* wiki.overview is a non-empty string
  chatPageContext, \* the request carries a non-empty pageContext
  chatFeatures,    \* number of rows of table features of the wiki
  chatMatched,     \* number of chunks matchChunks returned, -1 before it
  contextChunks    \* the context list, by kind of entry

chatVars == <<chatPc, chatOverview, chatPageContext, chatFeatures,
              chatMatched, contextChunks>>

\* state of a getMultipleFiles call made for one identified feature
VARIABLES
  filesPc,         \* "idle" | "call" | "running" | "resolved" |
                   \*   "rejected"
  relevantFiles,   \* identified.relevantFiles.length
  fileQueue,       \* paths left in the queue
  fileInFlight,    \* workers awaiting getFileContent
  fileRequested,   \* paths requested from the content source so far
  fileResults      \* entries of the results map

filesVars == <<filesPc, relevantFiles, fileQueue, fileInFlight,
               fileRequested, fileResults>>

\* state of a match_chunks call made by the search or the chat route
VARIABLES
  matchPc,         \* "idle" | "call" | "returned" | "failed"
  matchRoute,      \* the caller: "search" | "chat"
  chunkRows,       \* table chunks: how many rows there are of each kind
  p_wiki_id,       \* the unit searched
  matched          \* the rows the call returned, in order

matchVars == <<matchPc, matchRoute, chunkRows, p_wiki_id, matched>>

\* state of the POST /api/analyze requests made for one repository; the
\* rows of the repository's unit are wikiStatus, featuresTable, chunksTable
VARIABLES
  reqPc,           \* per request: "none" | "getWiki" | "cached" | the await
                   \*   its run is suspended at | "resolved" | "rejected" |
                   \*   "caught" | "closed"
  stream           \* per request: the events written to its event stream

routeVars == <<reqPc, stream>>

\* state of the requests made to the reading routes, POST /api/search and
\* POST /api/chat, for one unit
VARIABLES
  readPc,          \* per request: the await it is suspended at, or "sent"
  readRoute,       \* per request: "search" | "chat"
  readSeen,        \* per request: the status getWikiById returned
  readCalls,       \* per request: the services called after the status test
  readHttp         \* per request: status of the response, 0 before it

readVars == <<readPc, readRoute, readSeen, readCalls, readHttp>>

\* state of two runs started by /api/analyze in two worlds that differ in
\* nothing but the fate of the client of the event stream
VARIABLES
  rejecting,       \* the await that rejects, in both worlds, or "none"
  hungUp,          \* the worlds whose client has disconnected
  twinPc,          \* per world: the await the run is suspended at, or
                   \*   "resolved" | "rejected" | "caught" | "aborted"
  twinStatus,      \* per world: wikis.status of the unit
  twinRows,        \* per world: the tables the run has inserted rows in
  received,        \* per world: number of events the client received
  writerEnd        \* per world: "open", or how writer.close() settled

twinVars == <<rejecting, hungUp, twinPc, twinStatus, twinRows, received,
              writerEnd>>

\* state of an insertChunks call
VARIABLES
  insPc,           \* "idle" | "call" | "running" | "resolved" | "rejected",
                   \*   then the caller: "setDone" | "runFailed"
  insRecords,      \* chunks.length
  insBatch,        \* per batch: "unclaimed" | "inflight" | "inserted" |
                   \*   "error"
  insCalls,        \* per batch: insert calls made for it
  insNext,         \* the batch runner's cursor over the batches
  insTable,        \* the batches whose rows are in table chunks
  insThrown        \* the batch whose error insertChunks threw

insVars == <<insPc, insRecords, insBatch, insCalls, insNext, insTable,
             insThrown>>

\* state of the answer of one POST /api/chat request: the model stream and
\* the two branches stream.tee() makes of it
VARIABLES
  reply,           \* the deltas the model sends, "" for one without text
  sent,            \* deltas the stream returned by chatWithWiki has taken
  produced,        \* the chunks that stream has enqueued, in order
  srcEnd,          \* that stream: "open" | "closed" | "errored"
  clientBytes,     \* the chunks read from clientStream, in order
  clientEnd,       \* what the client saw last: "open" | "closed" | "errored"
  fullContent,     \* the chunks the saving branch has decoded, in order
  savePc,          \* saving branch: "idle" | "reading" | "inserting" |
                   \*   "saved" | "skipped" | "caught"
  assistantRows    \* the assistant messages insertChatMessage has stored

teeVars == <<reply, sent, produced, srcEnd, clientBytes, clientEnd,
             fullContent, savePc, assistantRows>>

\* state of the fetchWithSWR calls made for one url
VARIABLES
  cacheEntry,      \* the response stored for the url, NoEntry if none
  callPc,          \* per call: "none" | "match" | "fetch" | "put" |
                   \*   "returned" | "threw"
  matchFound,      \* per call: what cache.match gave: "none" | "fresh" |
                   \*   "stale", "" before it
  callData,        \* per call: the data it returned, NoData before
  revPc,           \* per call, its background fetchAndCache: "none" |
                   \*   "fetch" | "put" | "delete" | "stored" | "purged"
  netCalls         \* per call: fetch calls made on its behalf

swrVars == <<cacheEntry, callPc, matchFound, callData, revPc, netCalls>>

\* state of the slugs given to the Features of two runs of one server process
VARIABLES
  occurrences,     \* slugger.occurrences: the slugs issued, with counters
  slugTopics,      \* the identified features, the same for both runs
  slugs            \* per run: the slugs of the features processed so far

slugVars == <<occurrences, slugTopics, slugs>>

\* state of a chunkCodeFile call followed line by line
VARIABLES
  fileLines,       \* content.split("\n"): the kind of each line
  lineChunks,      \* the chunks returned, with their line ranges
  linePc           \* "idle" | "call" | "returned"

lineVars == <<fileLines, lineChunks, linePc>>

\* the components added last
laterVars == <<readVars, twinVars, insVars, teeVars, swrVars, slugVars,
               lineVars>>

\* the unit's rows, written by every run for the repository
unitRows == <<wikiStatus, featuresTable, chunksTable>>

\* the state of the one run that the pipeline specification follows
runVars == <<wikiOverview, pc, uPc, deleted, tPc, identified, topicPc,
             pageNext, fetched, features, sourceFiles, events, failCause,
             statusLog, clientGone, lateFetches>>

vars == <<batchVars, chunkVars, embedVars, pipeVars, chatVars, filesVars,
          matchVars, routeVars, laterVars>>

\* what a step of one component leaves alone: the other components
batchOthers == <<chunkVars, embedVars, pipeVars, chatVars, filesVars,
                 matchVars, routeVars, laterVars>>
chunkOthers == <<batchVars, embedVars, pipeVars, chatVars, filesVars,
                 matchVars, routeVars, laterVars>>
embedOthers == <<batchVars, chunkVars, pipeVars, chatVars, filesVars,
                 matchVars, routeVars, laterVars>>
pipeOutside == <<batchVars, chunkVars, chatVars, filesVars, matchVars,
                 routeVars, laterVars>>
pipeOthers == <<pipeOutside, clientGone, lateFetches>>
chatOthers == <<batchVars, chunkVars, embedVars, pipeVars, filesVars,
                matchVars, routeVars, laterVars>>
filesOthers == <<batchVars, chunkVars, embedVars, pipeVars, chatVars,
                 matchVars, routeVars, laterVars>>
matchOthers == <<batchVars, chunkVars, embedVars, pipeVars, chatVars,
                 filesVars, routeVars, laterVars>>
routeOthers == <<batchVars, chunkVars, embedVars, runVars, chatVars,
                 filesVars, matchVars, laterVars>>

\* every component but the run and the unit's rows
besideUnit == <<batchVars, chunkVars, embedVars, chatVars, filesVars,
                matchVars, routeVars>>
\* every component of the first specifications
earlierVars == <<besideUnit, pipeVars>>
readOthers == <<besideUnit, runVars, featuresTable, chunksTable, twinVars,
                insVars, teeVars, swrVars, slugVars, lineVars>>
twinOthers == <<earlierVars, readVars, insVars, teeVars, swrVars, slugVars,
                lineVars>>
insOthers == <<earlierVars, readVars, twinVars, teeVars, swrVars, slugVars,
               lineVars>>
teeOthers == <<earlierVars, readVars, twinVars, insVars, swrVars, slugVars,
               lineVars>>
swrOthers == <<earlierVars, readVars, twinVars, insVars, teeVars, slugVars,
               lineVars>>
slugOthers == <<earlierVars, readVars, twinVars, insVars, teeVars, swrVars,
                lineVars>>
lineOthers == <<earlierVars, readVars, twinVars, insVars, teeVars, swrVars,
                slugVars>>

EmptySlot == -1
WorkerDone == -2
WorkerRejected == -3

\* item value on which fn rejects; every other item value resolves
RejectItem == 0

\* the async unary function handed to batchAll: its result depends on both
\* the item and the index it is called with
Fn(item, i) == item * 100 + i

FnRejects(item, i) == item = RejectItem

N == Len(items)

\* (variant: one worker per item, the limit ignored)
workerCount_perItem == N

workerCount == Min(concurrency, N)

Workers == 1..workerCount

InFlight == {w \in DOMAIN workerIdx : workerIdx[w] >= 0}

\* (variant: the claim reads the cursor as it was before the last claim)
ClaimedIndex_stale == IF nextIndex > 0 THEN nextIndex - 1 ELSE 0

\* const i = nextIndex++  : the index a worker claims
ClaimedIndex == nextIndex

\* (variant: the claim skips an index)
CursorAfterClaim_skip == nextIndex + 2

CursorAfterClaim == nextIndex + 1

\* (variant: results are appended in completion order)
ResultSlot_completionOrder(w) == settledCount

\* results[i] = ... : the slot worker w writes when its fn call resolves
ResultSlot(w) == workerIdx[w]

\* One evaluation of the loop head of worker w up to its next await:
\*   while (nextIndex < items.length) { const i = nextIndex++; fn(items[i], i)
WorkerLoop(w) ==
  IF nextIndex < N
    THEN /\ workerIdx' = [workerIdx EXCEPT ![w] = ClaimedIndex]
         /\ nextIndex' = CursorAfterClaim
         /\ invoked' = [invoked EXCEPT ![ClaimedIndex] = @ + 1]
    ELSE /\ workerIdx' = [workerIdx EXCEPT ![w] = WorkerDone]
         /\ UNCHANGED <<nextIndex, invoked>>

\* batchAll is called: empty input returns [] at once, otherwise the
\* results array and the cursor are set up
BatchCall ==
  /\ bstate = "idle"
  /\ IF N = 0
       THEN /\ bstate' = "resolved"
            /\ returned' = <<>>
       ELSE /\ bstate' = "starting"
            /\ UNCHANGED returned
  /\ UNCHANGED <<items, concurrency, results, nextIndex, workerIdx, started,
                 thrown, invoked, written, settledCount, outOfOrder>>
  /\ UNCHANGED batchOthers

\* Array.from({ length: workerCount }, worker): the next worker is called
\* and runs synchronously up to its first await
WorkerStart ==
  /\ bstate = "starting"
  /\ started < workerCount
  /\ WorkerLoop(started + 1)
  /\ started' = started + 1
  /\ bstate' = IF started + 1 = workerCount THEN "running" ELSE "starting"
  /\ UNCHANGED <<items, concurrency, results, returned, thrown, written,
                 settledCount, outOfOrder>>
  /\ UNCHANGED batchOthers

\* (variant: the rejection of batchAll cancels the other workers)
Settling_untilRejected == {"running"}

\* the states of the call in which a worker's await can settle: nothing
\* stops the workers when Promise.all has rejected
Settling == {"running", "rejected"}

\* the fn call awaited by worker w resolves: the slot is written and the
\* worker goes round its loop
FnResolve(w) ==
  /\ bstate \in Settling
  /\ w \in InFlight
  /\ ~FnRejects(items[workerIdx[w] + 1], workerIdx[w])
  /\ results' = [results EXCEPT ![ResultSlot(w)] =
                    Fn(items[workerIdx[w] + 1], workerIdx[w])]
  /\ written' = [written EXCEPT ![ResultSlot(w)] = @ + 1]
  /\ settledCount' = settledCount + 1
  /\ outOfOrder' = (outOfOrder \/
                    \E v \in InFlight : workerIdx[v] < workerIdx[w])
  /\ WorkerLoop(w)
  /\ UNCHANGED <<items, concurrency, started, bstate, returned, thrown>>
  /\ UNCHANGED batchOthers

\* the fn call awaited by worker w rejects: the worker's promise rejects and
\* Promise.all rejects with the first rejection
FnReject(w) ==
  /\ bstate \in Settling
  /\ w \in InFlight
  /\ FnRejects(items[workerIdx[w] + 1], workerIdx[w])
  /\ workerIdx' = [workerIdx EXCEPT ![w] = WorkerRejected]
  /\ bstate' = "rejected"
  /\ thrown' = IF bstate = "rejected" THEN thrown ELSE workerIdx[w]
  /\ UNCHANGED <<items, concurrency, results, nextIndex, started, returned,
                 invoked, written, settledCount, outOfOrder>>
  /\ UNCHANGED batchOthers

\* every worker promise fulfilled: Promise.all fulfils, results is returned
BatchResolve ==
  /\ bstate = "running"
  /\ \A w \in DOMAIN workerIdx : workerIdx[w] = WorkerDone
  /\ bstate' = "resolved"
  /\ returned' = [i \in 1..N |-> results[i - 1]]
  /\ UNCHANGED <<items, concurrency, results, nextIndex, workerIdx, started,
                 thrown, invoked, written, settledCount, outOfOrder>>
  /\ UNCHANGED batchOthers

\* the arrays of at most MaxItems items over the given values
ItemLists(values) == UNION {[1..n -> values] : n \in 0..MaxItems}

\* the input arrays: every mix of items fn rejects and items fn resolves,
\* with a first item that differs from the others or not
Inputs ==
  LET mixes == ItemLists({RejectItem, 1})
  IN  mixes \cup {[s EXCEPT ![1] = 2] : s \in mixes \ {<<>>}}

BatchInit ==
  /\ items \in Inputs
  /\ concurrency \in 1..MaxConcurrency
  /\ results = [i \in 0..(Len(items) - 1) |-> EmptySlot]
  /\ nextIndex = 0
  /\ workerIdx = [w \in Workers |-> EmptySlot]
  /\ started = 0
  /\ bstate = "idle"
  /\ returned = <<>>
  /\ thrown = EmptySlot
  /\ invoked = [i \in 0..(Len(items) - 1) |-> 0]
  /\ written = [i \in 0..(Len(items) - 1) |-> 0]
  /\ settledCount = 0
  /\ outOfOrder = FALSE

BatchNext ==
  \/ BatchCall
  \/ WorkerStart
  \/ \E w \in Workers : FnResolve(w)
  \/ \E w \in Workers : FnReject(w)
  \/ BatchResolve

\* the batch runner at rest, for the specifications of the other components
BatchIdle ==
  /\ items = <<>>
  /\ concurrency = 1
  /\ results = <<>>
  /\ nextIndex = 0
  /\ workerIdx = <<>>
  /\ started = 0
  /\ bstate = "idle"
  /\ returned = <<>>
  /\ thrown = EmptySlot
  /\ invoked = <<>>
  /\ written = <<>>
  /\ settledCount = 0
  /\ outOfOrder = FALSE

(* ---------------------------------------------------------------------- *)
(* Token-aware contextual chunker, on token counts.                        *)
(* A text is represented by its number of tokens; the token count of a     *)
(* concatenation is the sum of the counts of its parts.                    *)
(* ---------------------------------------------------------------------- *)

MAX_CHUNK_TOKENS == 1024
MIN_BODY_TOKENS == 64

\* token counts the inputs are drawn from
HeaderSizes == {4, 500, 960, 961, 1500}
BodySizes == {0, 1, 64, 65, 1020, 1021, 1024, 1025, 2500}
\* tokens of the white space around a block that .trim() strips, the line
\* separator that split("\n") removed between two blocks included
TrimmedSizes == {0, 1}

\* a block as it stands in the input: its trimmed text and the white space
\* around it
untrimmed(unit) == unit.raw + unit.ws

\* (variant: a text of exactly limit tokens is split too)
RECURSIVE splitByTokenLimit_strict(_, _)
splitByTokenLimit_strict(tokens, limit) ==
  IF tokens < limit
    THEN <<tokens>>
    ELSE <<limit>> \o splitByTokenLimit_strict(tokens - limit, limit)

\* splitByTokenLimit(text, limit): the token counts of the pieces
RECURSIVE splitByTokenLimit(_, _)
splitByTokenLimit(tokens, limit) ==
  IF tokens <= limit
    THEN <<tokens>>
    ELSE <<limit>> \o splitByTokenLimit(tokens - limit, limit)

\* Math.max(64, MAX_CHUNK_TOKENS - prefixTokens)
bodyLimit(prefixTokens) ==
  Max(MIN_BODY_TOKENS, MAX_CHUNK_TOKENS - prefixTokens)

\* the chunks pushed for one unit: `${prefix}${body}` for every piece
PrefixedChunks(prefixTokens, rawTokens, limit) ==
  LET pieces == splitByTokenLimit(rawTokens, limit)
  IN  [k \in 1..Len(pieces) |->
         [prefix |-> prefixTokens, body |-> pieces[k],
          tokens |-> prefixTokens + pieces[k]]]

\* flush() of chunkCodeFile for one pending block; raw is the trimmed block,
\* an empty one is skipped
flush(fileHeader, importHeader, unit) ==
  IF unit.raw = 0
    THEN <<>>
    ELSE LET prefix == IF unit.isImportOnly THEN fileHeader ELSE importHeader
         IN  PrefixedChunks(prefix, unit.raw, bodyLimit(prefix))

RECURSIVE chunkCodeFile(_, _, _)
chunkCodeFile(fileHeader, importHeader, units) ==
  IF units = <<>>
    THEN <<>>
    ELSE flush(fileHeader, importHeader, Head(units))
           \o chunkCodeFile(fileHeader, importHeader, Tail(units))

\* the per-section part of chunkWikiContent; blank sections are skipped
RECURSIVE WikiSections(_)
WikiSections(sections) ==
  IF sections = <<>>
    THEN <<>>
    ELSE LET s == Head(sections)
         IN  (IF s.raw = 0
                THEN <<>>
                ELSE PrefixedChunks(s.prefix, s.raw, bodyLimit(s.prefix)))
               \o WikiSections(Tail(sections))

\* chunkWikiContent: the summary chunk(s) first, then the sections
chunkWikiContent(summaryPrefix, summaryTokens, sections) ==
  PrefixedChunks(summaryPrefix, summaryTokens, bodyLimit(summaryPrefix))
    \o WikiSections(sections)

\* chunkOverview: no prefix, the default limit
RECURSIVE chunkOverview(_)
chunkOverview(sections) ==
  IF sections = <<>>
    THEN <<>>
    ELSE (IF Head(sections) = 0
            THEN <<>>
            ELSE PrefixedChunks(0, Head(sections), MAX_CHUNK_TOKENS))
           \o chunkOverview(Tail(sections))

CodeInputs ==
  {[fileHeader |-> f, importHeader |-> h, units |-> u] :
     f \in {4}, h \in HeaderSizes,
     u \in UNION {[1..n -> [raw : BodySizes, ws : TrimmedSizes,
                             isImportOnly : BOOLEAN]] :
                    n \in 0..MaxUnits}}

WikiInputs ==
  {[summaryPrefix |-> p, summaryTokens |-> t, sections |-> u] :
     p \in HeaderSizes, t \in {0, 65},
     u \in UNION {[1..n -> [raw : BodySizes, ws : TrimmedSizes,
                             prefix : HeaderSizes]] :
                    n \in 0..1}}

OverviewInputs ==
  {[sections |-> u] : u \in UNION {[1..n -> BodySizes] : n \in 0..MaxUnits}}

ChunkCall ==
  /\ chunkPc = "call"
  /\ chunkOutput' =
       CASE chunkFn = "code" ->
              chunkCodeFile(chunkInput.fileHeader, chunkInput.importHeader,
                            chunkInput.units)
         [] chunkFn = "wiki" ->
              chunkWikiContent(chunkInput.summaryPrefix,
                               chunkInput.summaryTokens, chunkInput.sections)
         [] chunkFn = "overview" -> chunkOverview(chunkInput.sections)
  /\ chunkPc' = "returned"
  /\ UNCHANGED <<chunkFn, chunkInput>>
  /\ UNCHANGED chunkOthers

ChunkInit ==
  /\ chunkFn \in {"code", "wiki", "overview"}
  /\ chunkInput \in (CASE chunkFn = "code" -> CodeInputs
                       [] chunkFn = "wiki" -> WikiInputs
                       [] chunkFn = "overview" -> OverviewInputs)
  /\ chunkOutput = <<>>
  /\ chunkPc = "call"

ChunkIdle ==
  /\ chunkFn = "none"
  /\ chunkInput = <<>>
  /\ chunkOutput = <<>>
  /\ chunkPc = "idle"

(* ---------------------------------------------------------------------- *)
(* Retriable embedding batcher: generateEmbeddings(texts)                  *)
(* ---------------------------------------------------------------------- *)

BATCH_SIZE == 7
EMBED_RETRIES == 3
EMBED_CONCURRENCY == 5

NoText == [src |-> "none", topic |-> 0, path |-> 0, k |-> 0]

\* the vector the embedding service computes for a text
EmbeddingOf(text) == [vec |-> text]

\* embeddings[i] of an index past the end of the array
UndefinedVec == [vec |-> NoText]

\* number of batches: one per BATCH_SIZE texts, the last one possibly short
BatchCount(ts) == (Len(ts) + BATCH_SIZE - 1) \div BATCH_SIZE

\* texts.slice(i, i + BATCH_SIZE) for the b-th batch (1-based)
BatchOf(ts, b) ==
  SubSeq(ts, (b - 1) * BATCH_SIZE + 1, Min(b * BATCH_SIZE, Len(ts)))

\* getEmbeddings(batch): one vector per text, in order
getEmbeddings(batch) == [j \in 1..Len(batch) |-> EmbeddingOf(batch[j])]

\* what the batch runner's fn resolved to for batch b:
\* retryable(b).catch(() => [])
BatchResult(b) ==
  IF embStatus[b] = "ok" THEN getEmbeddings(BatchOf(texts, b)) ELSE <<>>

\* results.flat()
RECURSIVE FlatResults(_)
FlatResults(b) ==
  IF b = 0 THEN <<>> ELSE FlatResults(b - 1) \o BatchResult(b)

EmbInFlight == {b \in DOMAIN embStatus : embStatus[b] = "inflight"}

\* the batch runner's worker goes round its loop after batch b settled:
\* it claims the next batch, if any, and calls the embedding service
EmbSettle(b, outcome) ==
  IF embNext < BatchCount(texts)
    THEN /\ embStatus' = [embStatus EXCEPT ![b] = outcome,
                                          ![embNext + 1] = "inflight"]
         /\ embNext' = embNext + 1
    ELSE /\ embStatus' = [embStatus EXCEPT ![b] = outcome]
         /\ UNCHANGED embNext

\* generateEmbeddings is called: no texts returns [], otherwise the batches
\* are built and min(5, batches) workers make their first call
EmbedCall ==
  /\ embState = "call"
  /\ IF Len(texts) = 0
       THEN /\ embState' = "returned"
            /\ embeddings' = <<>>
            /\ UNCHANGED <<embStatus, embAttempts, embNext>>
       ELSE /\ embState' = "running"
            /\ embStatus' = [b \in 1..BatchCount(texts) |->
                               IF b <= EMBED_CONCURRENCY
                                 THEN "inflight" ELSE "unclaimed"]
            /\ embAttempts' = [b \in 1..BatchCount(texts) |-> 0]
            /\ embNext' = Min(EMBED_CONCURRENCY, BatchCount(texts))
            /\ UNCHANGED embeddings
  /\ UNCHANGED texts
  /\ UNCHANGED embedOthers

\* an attempt of batch b succeeds
EmbedAttemptOk(b) ==
  /\ embState = "running"
  /\ b \in EmbInFlight
  /\ embAttempts' = [embAttempts EXCEPT ![b] = @ + 1]
  /\ EmbSettle(b, "ok")
  /\ UNCHANGED <<texts, embState, embeddings>>
  /\ UNCHANGED embedOthers

\* (variant: one retry more)
RetryAllowed_oneMore(failedAttempts) == failedAttempts <= EMBED_RETRIES + 1

\* makeRetriable(getEmbeddings, { retries: 3 }): a failed attempt is retried
\* while the number of failed attempts does not exceed retries
RetryAllowed(failedAttempts) == failedAttempts <= EMBED_RETRIES

\* an attempt of batch b fails: it is retried while retries are left, after
\* the last one the batch degrades to []
EmbedAttemptFail(b) ==
  /\ embState = "running"
  /\ b \in EmbInFlight
  /\ embAttempts' = [embAttempts EXCEPT ![b] = @ + 1]
  /\ IF RetryAllowed(embAttempts[b] + 1)
       THEN UNCHANGED <<embStatus, embNext>>
       ELSE EmbSettle(b, "failed")
  /\ UNCHANGED <<texts, embState, embeddings>>
  /\ UNCHANGED embedOthers

\* every batch settled: return results.flat()
EmbedReturn ==
  /\ embState = "running"
  /\ \A b \in DOMAIN embStatus : embStatus[b] \in {"ok", "failed"}
  /\ embState' = "returned"
  /\ embeddings' = FlatResults(BatchCount(texts))
  /\ UNCHANGED <<texts, embStatus, embAttempts, embNext>>
  /\ UNCHANGED embedOthers

EmbedStep ==
  \/ EmbedCall
  \/ \E b \in DOMAIN embStatus : EmbedAttemptOk(b)
  \/ \E b \in DOMAIN embStatus : EmbedAttemptFail(b)
  \/ EmbedReturn

EmbedInit ==
  /\ texts \in {[j \in 1..m |-> [src |-> "text", topic |-> 0, path |-> 0,
                                  k |-> j]] : m \in 0..MaxTexts}
  /\ embState = "call"
  /\ embStatus = <<>>
  /\ embAttempts = <<>>
  /\ embNext = 0
  /\ embeddings = <<>>

EmbedIdle ==
  /\ texts = <<>>
  /\ embState = "idle"
  /\ embStatus = <<>>
  /\ embAttempts = <<>>
  /\ embNext = 0
  /\ embeddings = <<>>

(* ---------------------------------------------------------------------- *)
(* Pipeline orchestrator: runAnalysisPipeline(owner, repo, onEvent)        *)
(* ---------------------------------------------------------------------- *)

PAGE_CONCURRENCY == 5

\* statuses a unit can be left in by an earlier run
PriorStatuses ==
  {"pending", "identifying_features", "generating_pages", "embedding", "done"}

OldFeature == [run |-> "old", sort_order |-> 0]
OldChunk == [run |-> "old", content |-> NoText, embedding |-> UndefinedVec]

Event(type, status, topic, partial) ==
  [type |-> type, status |-> status, topic |-> topic, partial |-> partial]

StatusEvent(status) == Event("status", status, 0, FALSE)

Topics == 1..identified

\* identified.relevantFiles of feature i: its own file and a shared one
RelevantFiles(i) == {i, 1}

\* what getMultipleFiles may return for feature i: every file missing, or
\* every file found
FetchOutcomes(i) == {{}, RelevantFiles(i)}

\* content of a file as fetched for feature i
FileContent(path, i) == i

Settled == {i \in Topics : topicPc[i] \in {"ok", "failed"}}

TopicsInFlight ==
  {i \in Topics : topicPc[i] \in {"fetch", "generate", "insert"}}

\* (variant: the catch rethrows without an event)
Catch_noEvent(cause) ==
  /\ UNCHANGED events
  /\ pc' = "rejected"
  /\ failCause' = cause

\* the catch of runAnalysisPipeline: error event, then rethrow
Catch(cause) ==
  /\ events' = Append(events, Event("error", "", 0, FALSE))
  /\ pc' = "rejected"
  /\ failCause' = cause

\* updateWikiStatus(wikiId, status): the row's status is overwritten
updateWikiStatus(status) ==
  /\ wikiStatus' = status
  /\ statusLog' = Append(statusLog, status)

\* (variant: the failure is swallowed without an event)
CatchEvents_silent(i) == <<>>

\* the catch of fetchFilesAndGeneratePage: the events it emits
CatchEvents(i) == <<Event("feature_done", "", i, TRUE)>>

\* (variant: the start of a feature is announced twice)
StartEvents_twice(i) ==
  <<Event("feature_started", "", i, FALSE),
    Event("feature_started", "", i, FALSE)>>

\* the events fetchFilesAndGeneratePage emits when it is called for feature i
StartEvents(i) == <<Event("feature_started", "", i, FALSE)>>

\* Array.from calls the first n workers one after the other; each calls
\* fetchFilesAndGeneratePage, which runs up to its first await
RECURSIVE WorkersStartEvents(_)
WorkersStartEvents(n) ==
  IF n = 0 THEN <<>> ELSE WorkersStartEvents(n - 1) \o StartEvents(n)

\* the batch runner's worker goes round its loop after feature i settled
\* with the given outcome and events: it claims the next feature, if any
TopicSettle(i, outcome, evs) ==
  IF pageNext < identified
    THEN /\ topicPc' = [topicPc EXCEPT ![i] = outcome,
                                      ![pageNext + 1] = "fetch"]
         /\ pageNext' = pageNext + 1
         /\ events' = events \o evs \o StartEvents(pageNext + 1)
    ELSE /\ topicPc' = [topicPc EXCEPT ![i] = outcome]
         /\ events' = events \o evs
         /\ UNCHANGED pageNext

\* (variant: the features in the order in which their pages were done)
OkFeatures_byCompletion(n) ==
  LET done == SelectSeq(events,
                        LAMBDA e : e.type = "feature_done" /\ ~e.partial)
  IN  [k \in 1..Len(done) |-> done[k].topic]

\* (variant: the null results of the failed features are not filtered out)
OkFeatures_unfiltered(n) == [k \in 1..n |-> k]

\* results.filter(r => r !== null).map(r => r.feature): input order
RECURSIVE OkFeatures(_)
OkFeatures(n) ==
  IF n = 0 THEN <<>>
  ELSE OkFeatures(n - 1) \o (IF topicPc[n] = "ok" THEN <<n>> ELSE <<>>)

\* (variant: a path that is in the map keeps its content)
MapSet_keepFirst(acc, path, content) ==
  [p \in DOMAIN acc \cup {path} |->
     IF p \in DOMAIN acc THEN acc[p] ELSE content]

\* acc.set(path, content)
MapSet(acc, path, content) ==
  [p \in DOMAIN acc \cup {path} |-> IF p = path THEN content ELSE acc[p]]

\* for (const [path, content] of sfiles) acc.set(path, content), sfiles
\* being the map of feature i
RECURSIVE MergeOne(_, _, _)
MergeOne(acc, paths, i) ==
  IF paths = {}
    THEN acc
    ELSE LET path == CHOOSE x \in paths : TRUE
         IN  MergeOne(MapSet(acc, path, FileContent(path, i)),
                      paths \ {path}, i)

\* the reduce over the results, which are in input order
RECURSIVE MergeResults(_, _)
MergeResults(acc, fs) ==
  IF fs = <<>>
    THEN acc
    ELSE MergeResults(MergeOne(acc, fetched[Head(fs)], Head(fs)), Tail(fs))

\* the merged source file map generateAllPages returns
MergedSourceFiles == MergeResults(<<>>, OkFeatures(identified))

\* a set of integers as the ascending sequence (Map insertion order here)
RECURSIVE SetToSeq(_)
SetToSeq(S) ==
  IF S = {} THEN <<>>
  ELSE LET m == CHOOSE x \in S : \A y \in S : x <= y
       IN  <<m>> \o SetToSeq(S \ {m})

RECURSIVE TopicTexts(_)
TopicTexts(fs) ==
  IF fs = <<>> THEN <<>>
  ELSE [k \in 1..ChunksPerTopic |->
          [src |-> "wiki", topic |-> Head(fs), path |-> 0, k |-> k]]
         \o TopicTexts(Tail(fs))

\* allChunkTexts of embedWikiAndCode: overview chunks, then the chunks of
\* every feature, then the chunks of every source file
allChunkTexts(overviewChunks) ==
  [k \in 1..overviewChunks |->
     [src |-> "overview", topic |-> 0, path |-> 0, k |-> k]]
    \o TopicTexts(features)
    \o LET ps == SetToSeq(DOMAIN sourceFiles)
       IN  [j \in 1..Len(ps) |->
              [src |-> "code", topic |-> sourceFiles[ps[j]], path |-> ps[j],
               k |-> 1]]

\* chunkRecords: one record per text, with embeddings[i]
chunkRecords ==
  {[run |-> "new", content |-> texts[j],
    embedding |-> IF j <= Len(embeddings) THEN embeddings[j]
                                         ELSE UndefinedVec] :
     j \in 1..Len(texts)}

pipeRest == <<wikiOverview, featuresTable, chunksTable, identified, topicPc,
              pageNext, fetched, features, sourceFiles>>

(* ---- Phase A: gatherContext ---- *)

RunStart ==
  /\ pc = "start"
  /\ events' = Append(events, StatusEvent("fetching_tree"))
  /\ pc' = "meta"
  /\ UNCHANGED <<wikiStatus, statusLog, failCause, uPc, deleted, tPc,
                 pipeRest, embedVars>>
  /\ UNCHANGED pipeOthers

\* getRepoMeta resolved: Promise.all([upsertWiki, getRepoTree]) is started
MetaOk ==
  /\ pc = "meta"
  /\ events' = Append(events, StatusEvent("fetching_tree"))
  /\ pc' = "upsertTree"
  /\ uPc' = "select"
  /\ tPc' = "inflight"
  /\ UNCHANGED <<wikiStatus, statusLog, failCause, deleted, pipeRest,
                 embedVars>>
  /\ UNCHANGED pipeOthers

MetaFail ==
  /\ pc = "meta"
  /\ Catch("getRepoMeta")
  /\ UNCHANGED <<wikiStatus, statusLog, uPc, deleted, tPc, pipeRest,
                 embedVars>>
  /\ UNCHANGED pipeOthers

\* upsertWiki: the select of the existing row returned
UpsertSelect ==
  /\ uPc = "select"
  /\ uPc' = IF wikiStatus = "absent" THEN "insert"
            ELSE IF wikiStatus = "done" THEN "done"
            ELSE "update"
  /\ UNCHANGED <<wikiStatus, statusLog, pc, events, failCause, deleted,
                 tPc, pipeRest, embedVars>>
  /\ UNCHANGED pipeOthers

\* upsertWiki: reset of an existing row for re-generation
UpsertUpdate ==
  /\ uPc = "update"
  /\ updateWikiStatus("pending")
  /\ uPc' = "delete"
  /\ UNCHANGED <<pc, events, failCause, deleted, tPc, pipeRest, embedVars>>
  /\ UNCHANGED pipeOthers

UpsertUpdateFail ==
  /\ uPc = "update"
  /\ uPc' = "failed"
  /\ UNCHANGED <<wikiStatus, statusLog, pc, events, failCause, deleted,
                 tPc, pipeRest, embedVars>>
  /\ UNCHANGED pipeOthers

\* upsertWiki: one of the two parallel deletes completes; after the second
\* one Promise.all is fulfilled and upsertWiki returns
UpsertDelete(table) ==
  /\ uPc = "delete"
  /\ table \notin deleted
  /\ IF table = "chunks"
       THEN chunksTable' = {} /\ UNCHANGED featuresTable
       ELSE featuresTable' = {} /\ UNCHANGED chunksTable
  /\ IF deleted \cup {table} = {"chunks", "features"}
       THEN uPc' = "done" /\ deleted' = {}
       ELSE uPc' = "delete" /\ deleted' = {table}
  /\ UNCHANGED <<wikiStatus, statusLog, pc, events, failCause, tPc,
                 wikiOverview, identified, topicPc, pageNext, fetched,
                 features, sourceFiles, embedVars>>
  /\ UNCHANGED pipeOthers

\* upsertWiki: insert of a new row
UpsertInsert ==
  /\ uPc = "insert"
  /\ updateWikiStatus("pending")
  /\ uPc' = "done"
  /\ UNCHANGED <<pc, events, failCause, deleted, tPc, pipeRest, embedVars>>
  /\ UNCHANGED pipeOthers

UpsertInsertFail ==
  /\ uPc = "insert"
  /\ uPc' = "failed"
  /\ UNCHANGED <<wikiStatus, statusLog, pc, events, failCause, deleted,
                 tPc, pipeRest, embedVars>>
  /\ UNCHANGED pipeOthers

TreeOk ==
  /\ tPc = "inflight"
  /\ tPc' = "ok"
  /\ UNCHANGED <<wikiStatus, statusLog, pc, events, failCause, uPc,
                 deleted, pipeRest, embedVars>>
  /\ UNCHANGED pipeOthers

TreeFail ==
  /\ tPc = "inflight"
  /\ tPc' = "failed"
  /\ UNCHANGED <<wikiStatus, statusLog, pc, events, failCause, uPc,
                 deleted, pipeRest, embedVars>>
  /\ UNCHANGED pipeOthers

\* Promise.all fulfilled: tree filtered, fetchProjectContext is called
GatherJoin ==
  /\ pc = "upsertTree"
  /\ uPc = "done" /\ tPc = "ok"
  /\ events' = Append(events, StatusEvent("fetching_tree"))
  /\ pc' = "projectContext"
  /\ UNCHANGED <<wikiStatus, statusLog, failCause, uPc, deleted, tPc,
                 pipeRest, embedVars>>
  /\ UNCHANGED pipeOthers

\* Promise.all rejected with the first rejection; the other call goes on
GatherJoinFail ==
  /\ pc = "upsertTree"
  /\ uPc = "failed" \/ tPc = "failed"
  /\ Catch(IF uPc = "failed" THEN "upsertWiki" ELSE "getRepoTree")
  /\ UNCHANGED <<wikiStatus, statusLog, uPc, deleted, tPc, pipeRest,
                 embedVars>>
  /\ UNCHANGED pipeOthers

(* ---- Phase B: identifyRepoFeatures ---- *)

\* fetchProjectContext resolved: gatherContext returns, identifyRepoFeatures
\* awaits updateWikiStatus(wikiId, "identifying_features")
ProjectContextOk ==
  /\ pc = "projectContext"
  /\ pc' = "setIdentifying"
  /\ UNCHANGED <<wikiStatus, statusLog, events, failCause, uPc, deleted,
                 tPc, pipeRest, embedVars>>
  /\ UNCHANGED pipeOthers

ProjectContextFail ==
  /\ pc = "projectContext"
  /\ Catch("fetchProjectContext")
  /\ UNCHANGED <<wikiStatus, statusLog, uPc, deleted, tPc, pipeRest,
                 embedVars>>
  /\ UNCHANGED pipeOthers

SetIdentifyingOk ==
  /\ pc = "setIdentifying"
  /\ updateWikiStatus("identifying_features")
  /\ events' = Append(events, StatusEvent("identifying_features"))
  /\ pc' = "identify"
  /\ UNCHANGED <<failCause, uPc, deleted, tPc, pipeRest, embedVars>>
  /\ UNCHANGED pipeOthers

SetIdentifyingFail ==
  /\ pc = "setIdentifying"
  /\ Catch("updateWikiStatus")
  /\ UNCHANGED <<wikiStatus, statusLog, uPc, deleted, tPc, pipeRest,
                 embedVars>>
  /\ UNCHANGED pipeOthers

\* (variant: an empty list is let through)
NoFeaturesIdentified_never(n) == FALSE

\* !identifiedFeatures.length
NoFeaturesIdentified(n) == n = 0

\* identifyFeatures resolved with n features; none is a fatal error
IdentifyOk(n) ==
  /\ pc = "identify"
  /\ identified' = n
  /\ topicPc' = [i \in 1..n |-> "unclaimed"]
  /\ fetched' = [i \in 1..n |-> {}]
  /\ IF NoFeaturesIdentified(n)
       THEN Catch("noFeatures")
       ELSE /\ events' = events \o <<Event("features_list", "", 0, FALSE),
                                     StatusEvent("generating_pages")>>
            /\ pc' = "setGenerating"
            /\ UNCHANGED failCause
  /\ UNCHANGED <<wikiStatus, statusLog, uPc, deleted, tPc, wikiOverview,
                 featuresTable, chunksTable, pageNext, features, sourceFiles,
                 embedVars>>
  /\ UNCHANGED pipeOthers

IdentifyFail ==
  /\ pc = "identify"
  /\ Catch("identifyFeatures")
  /\ UNCHANGED <<wikiStatus, statusLog, uPc, deleted, tPc, pipeRest,
                 embedVars>>
  /\ UNCHANGED pipeOthers

(* ---- Phases C+D: generateAllPages ---- *)

\* updateWikiStatus(wikiId, "generating_pages") resolved: generateAllPages
\* starts min(5, identified) workers, each calls fetchFilesAndGeneratePage
SetGeneratingOk ==
  /\ pc = "setGenerating"
  /\ updateWikiStatus("generating_pages")
  /\ LET wc == Min(PAGE_CONCURRENCY, identified)
     IN  /\ topicPc' = [i \in Topics |->
                          IF i <= wc THEN "fetch" ELSE "unclaimed"]
         /\ pageNext' = wc
         /\ events' = events \o WorkersStartEvents(wc)
  /\ pc' = "pages"
  /\ UNCHANGED <<failCause, uPc, deleted, tPc, wikiOverview, featuresTable,
                 chunksTable, identified, fetched, features, sourceFiles,
                 embedVars>>
  /\ UNCHANGED pipeOthers

SetGeneratingFail ==
  /\ pc = "setGenerating"
  /\ Catch("updateWikiStatus")
  /\ UNCHANGED <<wikiStatus, statusLog, uPc, deleted, tPc, pipeRest,
                 embedVars>>
  /\ UNCHANGED pipeOthers

\* getMultipleFiles resolved with the files that could be fetched
FetchOk(i, files) ==
  /\ pc = "pages"
  /\ topicPc[i] = "fetch"
  /\ files \subseteq RelevantFiles(i)
  /\ fetched' = [fetched EXCEPT ![i] = files]
  /\ topicPc' = [topicPc EXCEPT ![i] = "generate"]
  /\ UNCHANGED <<wikiStatus, statusLog, pc, events, failCause, uPc,
                 deleted, tPc, wikiOverview, featuresTable, chunksTable,
                 identified, pageNext, features, sourceFiles, embedVars>>
  /\ UNCHANGED pipeOthers

\* generateFeaturePage resolved: insertFeature is called
GenerateOk(i) ==
  /\ pc = "pages"
  /\ topicPc[i] = "generate"
  /\ topicPc' = [topicPc EXCEPT ![i] = "insert"]
  /\ UNCHANGED <<wikiStatus, statusLog, pc, events, failCause, uPc,
                 deleted, tPc, wikiOverview, featuresTable, chunksTable,
                 identified, pageNext, fetched, features, sourceFiles,
                 embedVars>>
  /\ UNCHANGED pipeOthers

\* insertFeature resolved: the row exists, feature_done is emitted
InsertFeatureOk(i) ==
  /\ pc = "pages"
  /\ topicPc[i] = "insert"
  /\ featuresTable' = featuresTable \cup {[run |-> "new", sort_order |-> i]}
  /\ TopicSettle(i, "ok", <<Event("feature_done", "", i, FALSE)>>)
  /\ UNCHANGED <<wikiStatus, statusLog, pc, failCause, uPc, deleted, tPc,
                 wikiOverview, chunksTable, identified, fetched, features,
                 sourceFiles, embedVars>>
  /\ UNCHANGED pipeOthers

\* getMultipleFiles, generateFeaturePage or insertFeature threw: the catch
\* of fetchFilesAndGeneratePage returns null
TopicFail(i) ==
  /\ pc = "pages"
  /\ i \in TopicsInFlight
  /\ TopicSettle(i, "failed", CatchEvents(i))
  /\ UNCHANGED <<wikiStatus, statusLog, pc, failCause, uPc, deleted, tPc,
                 wikiOverview, featuresTable, chunksTable, identified,
                 fetched, features, sourceFiles, embedVars>>
  /\ UNCHANGED pipeOthers

\* paths of feature i that the other workers of getMultipleFiles still have
\* to deal with when the first of its getFileContent calls to settle rejects
LatePaths(i) == Cardinality(RelevantFiles(i)) - 1

\* one getFileContent call of feature i rejected while other paths of the
\* feature are in flight or queued: getMultipleFiles rejects and the catch
\* of fetchFilesAndGeneratePage returns null; the other workers of the call
\* go on fetching
FetchRejected(i) ==
  /\ pc = "pages"
  /\ topicPc[i] = "fetch"
  /\ LatePaths(i) > 0
  /\ lateFetches' = lateFetches + LatePaths(i)
  /\ TopicSettle(i, "failed", CatchEvents(i))
  /\ UNCHANGED <<wikiStatus, statusLog, pc, failCause, uPc, deleted, tPc,
                 wikiOverview, featuresTable, chunksTable, identified,
                 fetched, features, sourceFiles, embedVars>>
  /\ UNCHANGED <<pipeOutside, clientGone>>

\* a worker of a rejected getMultipleFiles call got the answer for one more
\* path; nobody reads the map it fills
LateFetchBack ==
  /\ lateFetches > 0
  /\ lateFetches' = lateFetches - 1
  /\ UNCHANGED <<wikiStatus, statusLog, pc, events, failCause, uPc,
                 deleted, tPc, pipeRest, embedVars>>
  /\ UNCHANGED <<pipeOutside, clientGone>>

\* batchAll resolved: generateAllPages returns, generateOverviewAndEmbed
\* emits its status event and calls generateOverview
PagesDone ==
  /\ pc = "pages"
  /\ Settled = Topics
  /\ features' = OkFeatures(identified)
  /\ sourceFiles' = MergedSourceFiles
  /\ events' = Append(events, StatusEvent("generating_pages"))
  /\ pc' = "overview"
  /\ UNCHANGED <<wikiStatus, statusLog, failCause, uPc, deleted, tPc,
                 wikiOverview, featuresTable, chunksTable, identified,
                 topicPc, pageNext, fetched, embedVars>>
  /\ UNCHANGED pipeOthers

(* ---- Phases E+F: generateOverviewAndEmbed ---- *)

OverviewOk ==
  /\ pc = "overview"
  /\ pc' = "setEmbedding"
  /\ UNCHANGED <<wikiStatus, statusLog, events, failCause, uPc, deleted,
                 tPc, pipeRest, embedVars>>
  /\ UNCHANGED pipeOthers

OverviewFail ==
  /\ pc = "overview"
  /\ Catch("generateOverview")
  /\ UNCHANGED <<wikiStatus, statusLog, uPc, deleted, tPc, pipeRest,
                 embedVars>>
  /\ UNCHANGED pipeOthers

\* updateWikiStatus(wikiId, "embedding", overview) resolved: embedWikiAndCode
\* chunks everything and, unless there is no chunk, calls generateEmbeddings
SetEmbeddingOk(overviewChunks) ==
  /\ pc = "setEmbedding"
  /\ updateWikiStatus("embedding")
  /\ wikiOverview' = "new"
  /\ events' = events \o <<StatusEvent("embedding"), StatusEvent("embedding")>>
  /\ texts' = allChunkTexts(overviewChunks)
  /\ IF Len(texts') = 0
       THEN pc' = "setDone" /\ UNCHANGED embState
       ELSE pc' = "embed" /\ embState' = "call"
  /\ UNCHANGED <<failCause, uPc, deleted, tPc, featuresTable, chunksTable,
                 identified, topicPc, pageNext, fetched, features,
                 sourceFiles, embStatus, embAttempts, embNext, embeddings>>
  /\ UNCHANGED pipeOthers

SetEmbeddingFail ==
  /\ pc = "setEmbedding"
  /\ Catch("updateWikiStatus")
  /\ UNCHANGED <<wikiStatus, statusLog, uPc, deleted, tPc, pipeRest,
                 embedVars>>
  /\ UNCHANGED pipeOthers

\* generateEmbeddings resolved: the records are built, insertChunks is called
\* (the retry counters lived in the resolved call and are gone with it)
EmbeddingsBack ==
  /\ pc = "embed"
  /\ embState = "returned"
  /\ pc' = "insertChunks"
  /\ embAttempts' = <<>>
  /\ UNCHANGED <<wikiStatus, statusLog, events, failCause, uPc, deleted,
                 tPc, pipeRest, texts, embState, embStatus, embNext,
                 embeddings>>
  /\ UNCHANGED pipeOthers

\* insertChunks resolved: updateWikiStatus(wikiId, "done") is called
InsertChunksOk ==
  /\ pc = "insertChunks"
  /\ chunksTable' = chunksTable \cup chunkRecords
  /\ pc' = "setDone"
  /\ UNCHANGED <<wikiStatus, statusLog, events, failCause, uPc, deleted,
                 tPc, wikiOverview, featuresTable, identified, topicPc,
                 pageNext, fetched, features, sourceFiles, embedVars>>
  /\ UNCHANGED pipeOthers

InsertChunksFail ==
  /\ pc = "insertChunks"
  /\ Catch("insertChunks")
  /\ UNCHANGED <<wikiStatus, statusLog, uPc, deleted, tPc, pipeRest,
                 embedVars>>
  /\ UNCHANGED pipeOthers

\* updateWikiStatus(wikiId, "done") resolved: done event, the run resolves
SetDoneOk ==
  /\ pc = "setDone"
  /\ updateWikiStatus("done")
  /\ events' = Append(events, Event("done", "", 0, FALSE))
  /\ pc' = "resolved"
  /\ UNCHANGED <<failCause, uPc, deleted, tPc, pipeRest, embedVars>>
  /\ UNCHANGED pipeOthers

SetDoneFail ==
  /\ pc = "setDone"
  /\ Catch("updateWikiStatus")
  /\ UNCHANGED <<wikiStatus, statusLog, uPc, deleted, tPc, pipeRest,
                 embedVars>>
  /\ UNCHANGED pipeOthers

\* the client of the event stream disconnects while the run is under way:
\* from now on writer.write rejects and sendEvent swallows the rejection
ClientAbort ==
  /\ pc \notin {"idle", "resolved", "rejected"}
  /\ ~clientGone
  /\ clientGone' = TRUE
  /\ UNCHANGED <<wikiStatus, statusLog, pc, events, failCause, uPc,
                 deleted, tPc, pipeRest, embedVars>>
  /\ UNCHANGED <<pipeOutside, lateFetches>>

\* the unit before the run: absent, or left behind by an earlier run
PipeInit ==
  /\ wikiStatus \in PriorStatuses \cup {"absent"}
  /\ wikiOverview = IF wikiStatus \in {"embedding", "done"} THEN "old" ELSE ""
  /\ featuresTable \in {{}, {OldFeature}}
  /\ chunksTable \in {{}, {OldChunk}}
  /\ wikiStatus \in {"absent", "pending", "identifying_features"}
       => featuresTable = {}
  /\ wikiStatus # "done" => chunksTable = {}
  /\ wikiStatus = "done" =>
       featuresTable = {OldFeature} /\ chunksTable = {OldChunk}
  /\ pc = "start"
  /\ uPc = "idle"
  /\ deleted = {}
  /\ tPc = "idle"
  /\ identified = 0
  /\ topicPc = <<>>
  /\ pageNext = 0
  /\ fetched = <<>>
  /\ features = <<>>
  /\ sourceFiles = <<>>
  /\ events = <<>>
  /\ failCause = "none"
  /\ statusLog = <<>>
  /\ clientGone = FALSE
  /\ lateFetches = 0

PipeIdle ==
  /\ wikiStatus = "absent"
  /\ wikiOverview = ""
  /\ featuresTable = {}
  /\ chunksTable = {}
  /\ pc = "idle"
  /\ uPc = "idle"
  /\ deleted = {}
  /\ tPc = "idle"
  /\ identified = 0
  /\ topicPc = <<>>
  /\ pageNext = 0
  /\ fetched = <<>>
  /\ features = <<>>
  /\ sourceFiles = <<>>
  /\ events = <<>>
  /\ failCause = "none"
  /\ statusLog = <<>>
  /\ clientGone = FALSE
  /\ lateFetches = 0

PipeNext ==
  \/ RunStart
  \/ MetaOk
  \/ MetaFail
  \/ UpsertSelect
  \/ UpsertUpdate
  \/ UpsertUpdateFail
  \/ \E table \in {"chunks", "features"} : UpsertDelete(table)
  \/ UpsertInsert
  \/ UpsertInsertFail
  \/ TreeOk
  \/ TreeFail
  \/ GatherJoin
  \/ GatherJoinFail
  \/ ProjectContextOk
  \/ ProjectContextFail
  \/ SetIdentifyingOk
  \/ SetIdentifyingFail
  \/ \E n \in 0..MaxTopics : IdentifyOk(n)
  \/ IdentifyFail
  \/ SetGeneratingOk
  \/ SetGeneratingFail
  \/ \E i \in Topics : \E files \in FetchOutcomes(i) : FetchOk(i, files)
  \/ \E i \in Topics : GenerateOk(i)
  \/ \E i \in Topics : InsertFeatureOk(i)
  \/ \E i \in Topics : TopicFail(i)
  \/ \E i \in Topics : FetchRejected(i)
  \/ LateFetchBack
  \/ PagesDone
  \/ OverviewOk
  \/ OverviewFail
  \/ \E c \in 0..1 : SetEmbeddingOk(c)
  \/ SetEmbeddingFail
  \/ EmbedCall
  \/ \E b \in DOMAIN embStatus : EmbedAttemptOk(b)
  \/ \E b \in DOMAIN embStatus : EmbedAttemptFail(b)
  \/ EmbedReturn
  \/ EmbeddingsBack
  \/ InsertChunksOk
  \/ InsertChunksFail
  \/ SetDoneOk
  \/ SetDoneFail
  \/ ClientAbort

(* ---------------------------------------------------------------------- *)
(* Chat route: the context POST /api/chat assembles for chatWithWiki       *)
(* ---------------------------------------------------------------------- *)

MATCH_COUNT == 8
FALLBACK_FEATURES == 15

\* n entries of one kind
Entries(kind, n) == [k \in 1..n |-> kind]

\* contextChunks.length <= (pageContext ? 1 : 0)
NeedsFallback(chunks) ==
  Len(chunks) <= (IF chatPageContext THEN 1 ELSE 0)

\* the step after the semantic search: either getFeatures is awaited for the
\* fallback or chatWithWiki is called with the context as it stands
AfterSearch(chunks) ==
  /\ contextChunks' = chunks
  /\ chatPc' = IF NeedsFallback(chunks) THEN "features" ELSE "generate"

\* the context is started with the overview and the page context, then
\* generateEmbeddings([question]) is awaited
ChatBuildContext ==
  /\ chatPc = "start"
  /\ contextChunks' =
       (IF chatOverview THEN <<"overview">> ELSE <<>>)
         \o (IF chatPageContext THEN <<"page">> ELSE <<>>)
  /\ chatPc' = "embed"
  /\ UNCHANGED <<chatOverview, chatPageContext, chatFeatures, chatMatched>>
  /\ UNCHANGED chatOthers

\* generateEmbeddings resolved with the question's vector: matchChunks is
\* awaited
ChatEmbeddingOk ==
  /\ chatPc = "embed"
  /\ chatPc' = "match"
  /\ UNCHANGED <<chatOverview, chatPageContext, chatFeatures, chatMatched,
                 contextChunks>>
  /\ UNCHANGED chatOthers

\* generateEmbeddings resolved with []: the search is skipped
ChatEmbeddingEmpty ==
  /\ chatPc = "embed"
  /\ chatMatched' = 0
  /\ AfterSearch(contextChunks)
  /\ UNCHANGED <<chatOverview, chatPageContext, chatFeatures>>
  /\ UNCHANGED chatOthers

\* matchChunks resolved with n chunks above the threshold
ChatMatchBack(n) ==
  /\ chatPc = "match"
  /\ n \in 0..MATCH_COUNT
  /\ chatMatched' = n
  /\ AfterSearch(contextChunks \o Entries("chunk", n))
  /\ UNCHANGED <<chatOverview, chatPageContext, chatFeatures>>
  /\ UNCHANGED chatOthers

\* getFeatures resolved: the first 15 features are added, chatWithWiki is
\* called
ChatFeaturesBack ==
  /\ chatPc = "features"
  /\ contextChunks' =
       contextChunks \o Entries("feature", Min(FALLBACK_FEATURES, chatFeatures))
  /\ chatPc' = "generate"
  /\ UNCHANGED <<chatOverview, chatPageContext, chatFeatures, chatMatched>>
  /\ UNCHANGED chatOthers

ChatNext ==
  \/ ChatBuildContext
  \/ ChatEmbeddingOk
  \/ ChatEmbeddingEmpty
  \/ \E n \in {0, 1, MATCH_COUNT} : ChatMatchBack(n)
  \/ ChatFeaturesBack

\* a request for a wiki with status done, as the route requires
ChatInit ==
  /\ chatPc = "start"
  /\ chatOverview \in BOOLEAN
  /\ chatPageContext \in BOOLEAN
  /\ chatFeatures \in 0..MaxChatFeatures
  /\ chatMatched = -1
  /\ contextChunks = <<>>

ChatIdle ==
  /\ chatPc = "idle"
  /\ chatOverview = FALSE
  /\ chatPageContext = FALSE
  /\ chatFeatures = 0
  /\ chatMatched = -1
  /\ contextChunks = <<>>

(* ---------------------------------------------------------------------- *)
(* File fetch of one feature: getMultipleFiles(…, relevantFiles, 10)       *)
(* as fetchFilesAndGeneratePage calls it                                   *)
(* ---------------------------------------------------------------------- *)

FETCH_CONCURRENCY == 10

\* the paths fetchFilesAndGeneratePage hands to getMultipleFiles: all of
\* identified.relevantFiles
PathsToFetch(n) == n

\* getMultipleFiles is called: min(concurrency, paths) workers each shift a
\* path off the queue and request it
FilesCall ==
  /\ filesPc = "call"
  /\ LET paths == PathsToFetch(relevantFiles)
         wc == Min(FETCH_CONCURRENCY, paths)
     IN  /\ fileQueue' = paths - wc
         /\ fileInFlight' = wc
         /\ fileRequested' = wc
         /\ filesPc' = IF wc = 0 THEN "resolved" ELSE "running"
  /\ UNCHANGED <<relevantFiles, fileResults>>
  /\ UNCHANGED filesOthers

\* one getFileContent call resolved, with content or with "" for a missing
\* file; its worker requests the next path of the queue, if any
FileBack(found) ==
  /\ filesPc \in {"running", "rejected"}
  /\ fileInFlight > 0
  /\ fileResults' = IF found THEN fileResults + 1 ELSE fileResults
  /\ IF fileQueue > 0
       THEN /\ fileQueue' = fileQueue - 1
            /\ fileRequested' = fileRequested + 1
            /\ UNCHANGED <<fileInFlight, filesPc>>
       ELSE /\ fileInFlight' = fileInFlight - 1
            /\ filesPc' = IF filesPc = "running" /\ fileInFlight = 1
                             THEN "resolved"
                             ELSE filesPc
            /\ UNCHANGED <<fileQueue, fileRequested>>
  /\ UNCHANGED relevantFiles
  /\ UNCHANGED filesOthers

\* the fetch of one getFileContent call rejected (network failure; an HTTP
\* error status resolves and is FileBack(FALSE)): nothing catches it, so its
\* worker ends, Promise.all rejects and with it getMultipleFiles; the other
\* workers go on with the queue
FileRejected ==
  /\ filesPc \in {"running", "rejected"}
  /\ fileInFlight > 0
  /\ fileInFlight' = fileInFlight - 1
  /\ filesPc' = "rejected"
  /\ UNCHANGED <<relevantFiles, fileQueue, fileRequested, fileResults>>
  /\ UNCHANGED filesOthers

FilesNext ==
  \/ FilesCall
  \/ \E found \in BOOLEAN : FileBack(found)
  \/ FileRejected

FilesInit ==
  /\ filesPc = "call"
  /\ relevantFiles \in 0..MaxRelevantFiles
  /\ fileQueue = 0
  /\ fileInFlight = 0
  /\ fileRequested = 0
  /\ fileResults = 0

FilesIdle ==
  /\ filesPc = "idle"
  /\ relevantFiles = 0
  /\ fileQueue = 0
  /\ fileInFlight = 0
  /\ fileRequested = 0
  /\ fileResults = 0

(* ---------------------------------------------------------------------- *)
(* Similarity search: the SQL function match_chunks, called through        *)
(* matchChunks by the search route and by the chat route                   *)
(* ---------------------------------------------------------------------- *)

\* matchChunks(wikiId, embeddings[0], 10, 0.5) of the search route; the chat
\* route passes MATCH_COUNT; similarities and distances are in hundredths
SEARCH_MATCH_COUNT == 10
MATCH_THRESHOLD == 50

\* c.embedding <=> query_embedding of a row whose embedding is NULL
NullDistance == -1

\* cosine distances of the stored vectors to the query vector
Distances == {20, 49, 50, 70, NullDistance}

WikiIds == {1, 2}

\* the kinds of row of table chunks: every distance for unit 1, a near row
\* for unit 2
RowKinds ==
  {[wiki_id |-> 1, distance |-> d] : d \in Distances}
    \cup {[wiki_id |-> 2, distance |-> 20]}

\* 1 - (c.embedding <=> query_embedding); NULL stays NULL
Similarity(distance) ==
  IF distance = NullDistance THEN NullDistance ELSE 100 - distance

\* (variant: rows at the threshold are let through)
AboveThreshold_inclusive(distance, threshold) ==
  /\ distance # NullDistance
  /\ Similarity(distance) >= threshold

\* 1 - (c.embedding <=> query_embedding) > match_threshold; a comparison
\* with NULL is not true
AboveThreshold(distance, threshold) ==
  /\ distance # NullDistance
  /\ Similarity(distance) > threshold

\* the where clause
Selected(rows, wiki, threshold) ==
  {r \in DOMAIN rows : /\ rows[r] > 0
                       /\ r.wiki_id = wiki
                       /\ AboveThreshold(r.distance, threshold)}

\* order by c.embedding <=> query_embedding: nearest first
RECURSIVE OrderByDistance(_, _)
OrderByDistance(kinds, rows) ==
  IF kinds = {}
    THEN <<>>
    ELSE LET r == CHOOSE x \in kinds :
                    \A y \in kinds : x.distance <= y.distance
         IN  [k \in 1..rows[r] |->
                [wiki_id |-> r.wiki_id,
                 similarity |-> Similarity(r.distance)]]
               \o OrderByDistance(kinds \ {r}, rows)

\* limit match_count
Limit(rows, count) == SubSeq(rows, 1, Min(count, Len(rows)))

match_chunks(rows, wiki, match_count, match_threshold) ==
  Limit(OrderByDistance(Selected(rows, wiki, match_threshold), rows),
        match_count)

\* the count and the threshold the two routes pass
MatchArgs(route) ==
  IF route = "search"
    THEN [count |-> SEARCH_MATCH_COUNT, threshold |-> MATCH_THRESHOLD]
    ELSE [count |-> MATCH_COUNT, threshold |-> MATCH_THRESHOLD]

\* the rpc returned its rows
MatchCall ==
  /\ matchPc = "call"
  /\ matched' = match_chunks(chunkRows, p_wiki_id,
                             MatchArgs(matchRoute).count,
                             MatchArgs(matchRoute).threshold)
  /\ matchPc' = "returned"
  /\ UNCHANGED <<matchRoute, chunkRows, p_wiki_id>>
  /\ UNCHANGED matchOthers

\* the rpc returned an error: matchChunks throws
MatchError ==
  /\ matchPc = "call"
  /\ matchPc' = "failed"
  /\ UNCHANGED <<matchRoute, chunkRows, p_wiki_id, matched>>
  /\ UNCHANGED matchOthers

MatchNext ==
  \/ MatchCall
  \/ MatchError

MatchInit ==
  /\ matchPc = "call"
  /\ matchRoute \in {"search", "chat"}
  /\ chunkRows \in [RowKinds -> {0, 1, MaxSameRows}]
  /\ p_wiki_id \in WikiIds
  /\ matched = <<>>

MatchIdle ==
  /\ matchPc = "idle"
  /\ matchRoute = "none"
  /\ chunkRows = <<>>
  /\ p_wiki_id = 0
  /\ matched = <<>>

(* ---------------------------------------------------------------------- *)
(* Analyze route: POST /api/analyze requests for one repository, each with *)
(* the run it starts, followed at the grain of the run's database writes   *)
(* ---------------------------------------------------------------------- *)

Requests == 1..MaxRequests

\* rows left by an earlier, finished run
PriorRun == 0

FeatureRow(run) == [run |-> run, sort_order |-> 0]
ChunkRow(run) == [run |-> run]

\* the awaits of a run at which the route model follows it
RunAwaits ==
  {"meta", "select", "insert", "update", "delete", "setIdentifying",
   "setGenerating", "insertFeature", "setEmbedding", "insertChunks",
   "setDone"}

Running == {r \in Requests : reqPc[r] \in RunAwaits}

\* sendEvent: the event is written to the request's stream
Send(r, type) == stream' = [stream EXCEPT ![r] = Append(@, type)]

\* the request's run goes on to its next await
Goto(r, await) == reqPc' = [reqPc EXCEPT ![r] = await]

\* a request arrives: the handler awaits getWiki(owner, repo)
PostArrive(r) ==
  /\ reqPc[r] = "none"
  /\ Goto(r, "getWiki")
  /\ UNCHANGED <<stream, unitRows>>
  /\ UNCHANGED routeOthers

\* (variant: the stored result is never re-used)
IsCached_never(status) == FALSE

\* existing && existing.status === "done"
IsCached(status) == status = "done"

\* getWiki returned: either the JSON answer with cached: true, or the run is
\* started and goes as far as its first await, getRepoMeta
PostGetWiki(r) ==
  /\ reqPc[r] = "getWiki"
  /\ IF IsCached(wikiStatus)
       THEN Goto(r, "cached") /\ UNCHANGED stream
       ELSE Goto(r, "meta") /\ Send(r, "status")
  /\ UNCHANGED unitRows
  /\ UNCHANGED routeOthers

\* getRepoMeta resolved: upsertWiki awaits its select
RunMeta(r) ==
  /\ reqPc[r] = "meta"
  /\ Goto(r, "select")
  /\ Send(r, "status")
  /\ UNCHANGED unitRows
  /\ UNCHANGED routeOthers

\* upsertWiki: the select returned the row, if any
RunSelect(r) ==
  /\ reqPc[r] = "select"
  /\ Goto(r, IF wikiStatus = "absent" THEN "insert"
             ELSE IF wikiStatus = "done" THEN "setIdentifying"
             ELSE "update")
  /\ IF wikiStatus = "done" THEN Send(r, "status") ELSE UNCHANGED stream
  /\ UNCHANGED unitRows
  /\ UNCHANGED routeOthers

\* upsertWiki: the insert of a new row; unique (owner, repo) makes it fail
\* when another run inserted the row in the meantime
RunInsert(r) ==
  /\ reqPc[r] = "insert"
  /\ IF wikiStatus = "absent"
       THEN /\ wikiStatus' = "pending"
            /\ Goto(r, "setIdentifying")
            /\ Send(r, "status")
       ELSE /\ UNCHANGED wikiStatus
            /\ Goto(r, "rejected")
            /\ Send(r, "error")
  /\ UNCHANGED <<featuresTable, chunksTable>>
  /\ UNCHANGED routeOthers

\* upsertWiki: the reset of an existing row
RunUpdate(r) ==
  /\ reqPc[r] = "update"
  /\ wikiStatus' = "pending"
  /\ Goto(r, "delete")
  /\ UNCHANGED <<stream, featuresTable, chunksTable>>
  /\ UNCHANGED routeOthers

\* upsertWiki: both deletes completed, one right after the other
RunDelete(r) ==
  /\ reqPc[r] = "delete"
  /\ featuresTable' = {}
  /\ chunksTable' = {}
  /\ Goto(r, "setIdentifying")
  /\ Send(r, "status")
  /\ UNCHANGED wikiStatus
  /\ UNCHANGED routeOthers

\* an updateWikiStatus of the run resolved
RunSetStatus(r, await, status, next) ==
  /\ reqPc[r] = await
  /\ wikiStatus' = status
  /\ Goto(r, next)
  /\ Send(r, IF status = "done" THEN "done" ELSE "status")
  /\ UNCHANGED <<featuresTable, chunksTable>>
  /\ UNCHANGED routeOthers

RunSetIdentifying(r) ==
  RunSetStatus(r, "setIdentifying", "identifying_features", "setGenerating")

RunSetGenerating(r) ==
  RunSetStatus(r, "setGenerating", "generating_pages", "insertFeature")

\* insertFeature of the run's one feature resolved
RunInsertFeature(r) ==
  /\ reqPc[r] = "insertFeature"
  /\ featuresTable' = featuresTable \cup {FeatureRow(r)}
  /\ Goto(r, "setEmbedding")
  /\ Send(r, "feature_done")
  /\ UNCHANGED <<wikiStatus, chunksTable>>
  /\ UNCHANGED routeOthers

RunSetEmbedding(r) ==
  RunSetStatus(r, "setEmbedding", "embedding", "insertChunks")

\* insertChunks of the run resolved
RunInsertChunks(r) ==
  /\ reqPc[r] = "insertChunks"
  /\ chunksTable' = chunksTable \cup {ChunkRow(r)}
  /\ Goto(r, "setDone")
  /\ UNCHANGED <<stream, wikiStatus, featuresTable>>
  /\ UNCHANGED routeOthers

RunSetDone(r) == RunSetStatus(r, "setDone", "done", "resolved")

\* the call the run awaits threw: the catch of runAnalysisPipeline sends
\* its error event and rethrows
RunFail(r) ==
  /\ reqPc[r] \in RunAwaits
  /\ Goto(r, "rejected")
  /\ Send(r, "error")
  /\ UNCHANGED unitRows
  /\ UNCHANGED routeOthers

\* .catch of the route: it sends an error event of its own
RouteCatch(r) ==
  /\ reqPc[r] = "rejected"
  /\ Goto(r, "caught")
  /\ Send(r, "error")
  /\ UNCHANGED unitRows
  /\ UNCHANGED routeOthers

\* .finally of the route: writer.close()
RouteFinally(r) ==
  /\ reqPc[r] \in {"resolved", "caught"}
  /\ Goto(r, "closed")
  /\ Send(r, "close")
  /\ UNCHANGED unitRows
  /\ UNCHANGED routeOthers

RouteNext ==
  \/ \E r \in Requests : PostArrive(r)
  \/ \E r \in Requests : PostGetWiki(r)
  \/ \E r \in Requests : RunMeta(r)
  \/ \E r \in Requests : RunSelect(r)
  \/ \E r \in Requests : RunInsert(r)
  \/ \E r \in Requests : RunUpdate(r)
  \/ \E r \in Requests : RunDelete(r)
  \/ \E r \in Requests : RunSetIdentifying(r)
  \/ \E r \in Requests : RunSetGenerating(r)
  \/ \E r \in Requests : RunInsertFeature(r)
  \/ \E r \in Requests : RunSetEmbedding(r)
  \/ \E r \in Requests : RunInsertChunks(r)
  \/ \E r \in Requests : RunSetDone(r)
  \/ \E r \in Requests : RunFail(r)
  \/ \E r \in Requests : RouteCatch(r)
  \/ \E r \in Requests : RouteFinally(r)

\* the unit before the first request: absent, or as an earlier run left it
RouteInit ==
  /\ wikiStatus \in {"absent", "generating_pages", "done"}
  /\ featuresTable =
       IF wikiStatus = "absent" THEN {} ELSE {FeatureRow(PriorRun)}
  /\ chunksTable = IF wikiStatus = "done" THEN {ChunkRow(PriorRun)} ELSE {}
  /\ reqPc = [r \in Requests |-> "none"]
  /\ stream = [r \in Requests |-> <<>>]

RouteIdle ==
  /\ reqPc = <<>>
  /\ stream = <<>>

\* no run is followed by the pipeline specification
RunIdle ==
  /\ wikiOverview = ""
  /\ pc = "idle"
  /\ uPc = "idle"
  /\ deleted = {}
  /\ tPc = "idle"
  /\ identified = 0
  /\ topicPc = <<>>
  /\ pageNext = 0
  /\ fetched = <<>>
  /\ features = <<>>
  /\ sourceFiles = <<>>
  /\ events = <<>>
  /\ failCause = "none"
  /\ statusLog = <<>>
  /\ clientGone = FALSE
  /\ lateFetches = 0

(* ---------------------------------------------------------------------- *)
(* The reading routes: POST /api/search and POST /api/chat check the unit  *)
(* before they embed the question and search its chunks                    *)
(* ---------------------------------------------------------------------- *)

Readers == 1..MaxReaders

\* the statuses a unit's row can hold
UnitStatuses == PriorStatuses \cup {"error"}

\* (variant: any unit that exists is read)
IsReady_exists(status) == status # "absent"

\* !(!wiki || wiki.status !== "done")
IsReady(status) == status = "done"

ReadGoto(r, to) == readPc' = [readPc EXCEPT ![r] = to]

\* NextResponse.json(..., { status }) is returned
Respond(r, status) ==
  /\ readHttp' = [readHttp EXCEPT ![r] = status]
  /\ ReadGoto(r, "sent")

\* a service of the search is called
ReadCall(r, service) ==
  readCalls' = [readCalls EXCEPT ![r] = Append(@, service)]

\* a request with a valid body arrives (for chat: of a signed-in user):
\* getWikiById is awaited
ReadArrive(r, route) ==
  /\ readPc[r] = "none"
  /\ readRoute' = [readRoute EXCEPT ![r] = route]
  /\ ReadGoto(r, "getWiki")
  /\ UNCHANGED <<readSeen, readCalls, readHttp, wikiStatus>>
  /\ UNCHANGED readOthers

\* getWikiById resolved: 404 unless the unit exists with status done; then
\* the access guard runs and the next service is awaited (search: the
\* question is embedded; chat: the history is loaded)
ReadGetWiki(r, allowed) ==
  /\ readPc[r] = "getWiki"
  /\ readSeen' = [readSeen EXCEPT ![r] = wikiStatus]
  /\ IF ~IsReady(wikiStatus)
       THEN Respond(r, 404) /\ UNCHANGED readCalls
       ELSE IF ~allowed
         THEN Respond(r, 403) /\ UNCHANGED readCalls
         ELSE IF readRoute[r] = "search"
           THEN /\ ReadGoto(r, "embed")
                /\ ReadCall(r, "generateEmbeddings")
                /\ UNCHANGED readHttp
           ELSE /\ ReadGoto(r, "history")
                /\ UNCHANGED <<readCalls, readHttp>>
  /\ UNCHANGED <<readRoute, wikiStatus>>
  /\ UNCHANGED readOthers

\* chat: getChatSessionMessages resolved, insertChatMessage is awaited
ReadHistoryBack(r) ==
  /\ readPc[r] = "history"
  /\ ReadGoto(r, "persist")
  /\ UNCHANGED <<readRoute, readSeen, readCalls, readHttp, wikiStatus>>
  /\ UNCHANGED readOthers

\* chat: the user's message is stored, the question is embedded
ReadPersistBack(r) ==
  /\ readPc[r] = "persist"
  /\ ReadGoto(r, "embed")
  /\ ReadCall(r, "generateEmbeddings")
  /\ UNCHANGED <<readRoute, readSeen, readHttp, wikiStatus>>
  /\ UNCHANGED readOthers

\* generateEmbeddings resolved: with a vector matchChunks is awaited; with
\* none the search route answers 502 and the chat route skips the search
ReadEmbedBack(r, vector) ==
  /\ readPc[r] = "embed"
  /\ IF vector
       THEN /\ ReadGoto(r, "match")
            /\ ReadCall(r, "matchChunks")
            /\ UNCHANGED readHttp
       ELSE IF readRoute[r] = "search"
         THEN Respond(r, 502) /\ UNCHANGED readCalls
         ELSE ReadGoto(r, "answer") /\ UNCHANGED <<readCalls, readHttp>>
  /\ UNCHANGED <<readRoute, readSeen, wikiStatus>>
  /\ UNCHANGED readOthers

\* matchChunks resolved: the answer is put together (search: getFeatures;
\* chat: the fallback and chatWithWiki)
ReadMatchBack(r) ==
  /\ readPc[r] = "match"
  /\ ReadGoto(r, "answer")
  /\ UNCHANGED <<readRoute, readSeen, readCalls, readHttp, wikiStatus>>
  /\ UNCHANGED readOthers

\* the results, or the answer stream, are returned
ReadAnswer(r) ==
  /\ readPc[r] = "answer"
  /\ Respond(r, 200)
  /\ UNCHANGED <<readRoute, readSeen, readCalls, wikiStatus>>
  /\ UNCHANGED readOthers

\* a service awaited by the route threw: the route has no catch
ReadThrow(r) ==
  /\ readPc[r] \in {"history", "persist", "embed", "match", "answer"}
  /\ Respond(r, 500)
  /\ UNCHANGED <<readRoute, readSeen, readCalls, wikiStatus>>
  /\ UNCHANGED readOthers

\* a run for the unit writes its status while the requests are served
UnitStatusWrite(status) ==
  /\ wikiStatus # "absent"
  /\ status # wikiStatus
  /\ wikiStatus' = status
  /\ UNCHANGED readVars
  /\ UNCHANGED readOthers

ReadNext ==
  \/ \E r \in Readers : \E route \in {"search", "chat"} : ReadArrive(r, route)
  \/ \E r \in Readers : \E allowed \in BOOLEAN : ReadGetWiki(r, allowed)
  \/ \E r \in Readers : ReadHistoryBack(r)
  \/ \E r \in Readers : ReadPersistBack(r)
  \/ \E r \in Readers : \E vector \in BOOLEAN : ReadEmbedBack(r, vector)
  \/ \E r \in Readers : ReadMatchBack(r)
  \/ \E r \in Readers : ReadAnswer(r)
  \/ \E r \in Readers : ReadThrow(r)
  \/ \E status \in UnitStatuses : UnitStatusWrite(status)

ReadInit ==
  /\ readPc = [r \in Readers |-> "none"]
  /\ readRoute = [r \in Readers |-> "none"]
  /\ readSeen = [r \in Readers |-> "none"]
  /\ readCalls = [r \in Readers |-> <<>>]
  /\ readHttp = [r \in Readers |-> 0]
  /\ wikiStatus \in UnitStatuses \cup {"absent"}
  /\ featuresTable = {}
  /\ chunksTable = {}

ReadIdle ==
  /\ readPc = <<>>
  /\ readRoute = <<>>
  /\ readSeen = <<>>
  /\ readCalls = <<>>
  /\ readHttp = <<>>

(* ---------------------------------------------------------------------- *)
(* Event delivery: the run of one POST /api/analyze followed in two worlds *)
(* in which every service behaves alike and only the client differs        *)
(* ---------------------------------------------------------------------- *)

Worlds == {1, 2}

\* the awaits of a run on a repository that has no unit yet, in order
TwinAwaits ==
  <<"meta", "insert", "setIdentifying", "identify", "setGenerating",
    "insertFeature", "setEmbedding", "insertChunks", "setDone">>

AwaitNames == {TwinAwaits[i] : i \in DOMAIN TwinAwaits}

AwaitIndex(await) == CHOOSE i \in DOMAIN TwinAwaits : TwinAwaits[i] = await

\* where the run is suspended once `await` resolved
AwaitAfter(await) ==
  IF await = "setDone" THEN "resolved"
  ELSE TwinAwaits[AwaitIndex(await) + 1]

\* the value of wikis.status the resolved call has written, if it wrote one
StatusAfter(await, status) ==
  CASE await = "insert" -> "pending"
    [] await = "setIdentifying" -> "identifying_features"
    [] await = "setGenerating" -> "generating_pages"
    [] await = "setEmbedding" -> "embedding"
    [] await = "setDone" -> "done"
    [] OTHER -> status

\* the table the resolved call has inserted rows in, if it inserted any
RowsAfter(await, rows) ==
  CASE await = "insertFeature" -> rows \cup {"features"}
    [] await = "insertChunks" -> rows \cup {"chunks"}
    [] OTHER -> rows

\* writer.write rejects once the client of the stream has disconnected
WriteRejects(w) == w \in hungUp

\* (variant: sendEvent without its try/catch)
sendEvent_uncaught(rejects) == IF rejects THEN "rejected" ELSE "fulfilled"

\* sendEvent: the promise it returns, given whether writer.write rejects;
\* the catch drops the rejection
sendEvent(rejects) == "fulfilled"

\* onEvent(event) is called and its promise is left alone; a rejection
\* of that promise would be handled nowhere and end the process
OnEvent(w, next) ==
  /\ received' = [received EXCEPT ![w] =
                    IF WriteRejects(w) THEN @ ELSE @ + 1]
  /\ twinPc' = [twinPc EXCEPT ![w] =
                  IF sendEvent(WriteRejects(w)) = "rejected"
                    THEN "aborted" ELSE next]

\* the call the run awaits resolved: what it wrote is in the database, the
\* run reports its progress and goes on to its next await
TwinResolve(w) ==
  /\ twinPc[w] \in AwaitNames
  /\ twinPc[w] # rejecting
  /\ twinStatus' = [twinStatus EXCEPT ![w] = StatusAfter(twinPc[w], @)]
  /\ twinRows' = [twinRows EXCEPT ![w] = RowsAfter(twinPc[w], @)]
  /\ OnEvent(w, AwaitAfter(twinPc[w]))
  /\ UNCHANGED <<rejecting, hungUp, writerEnd>>
  /\ UNCHANGED twinOthers

\* the call the run awaits rejected: the catch of runAnalysisPipeline
\* reports the error and rethrows
TwinReject(w) ==
  /\ twinPc[w] \in AwaitNames
  /\ twinPc[w] = rejecting
  /\ OnEvent(w, "rejected")
  /\ UNCHANGED <<rejecting, hungUp, twinStatus, twinRows, writerEnd>>
  /\ UNCHANGED twinOthers

\* .catch of the route: await sendEvent({ type: "error", ... })
TwinCatch(w) ==
  /\ twinPc[w] = "rejected"
  /\ OnEvent(w, "caught")
  /\ UNCHANGED <<rejecting, hungUp, twinStatus, twinRows, writerEnd>>
  /\ UNCHANGED twinOthers

\* .finally of the route: writer.close(), which rejects on a stream the
\* client has left; by then the run has ended
TwinFinally(w) ==
  /\ twinPc[w] \in {"resolved", "caught"}
  /\ writerEnd[w] = "open"
  /\ writerEnd' = [writerEnd EXCEPT ![w] =
                     IF WriteRejects(w) THEN "rejected" ELSE "closed"]
  /\ UNCHANGED <<rejecting, hungUp, twinPc, twinStatus, twinRows, received>>
  /\ UNCHANGED twinOthers

\* the client of a world's event stream disconnects
HangUp(w) ==
  /\ w \notin hungUp
  /\ hungUp' = hungUp \cup {w}
  /\ UNCHANGED <<rejecting, twinPc, twinStatus, twinRows, received,
                 writerEnd>>
  /\ UNCHANGED twinOthers

TwinNext ==
  \/ \E w \in Worlds : TwinResolve(w)
  \/ \E w \in Worlds : TwinReject(w)
  \/ \E w \in Worlds : TwinCatch(w)
  \/ \E w \in Worlds : TwinFinally(w)
  \/ \E w \in Worlds : HangUp(w)

\* both runs have just been started by the route
TwinInit ==
  /\ rejecting \in AwaitNames \cup {"none"}
  /\ hungUp = {}
  /\ twinPc = [w \in Worlds |-> "meta"]
  /\ twinStatus = [w \in Worlds |-> "absent"]
  /\ twinRows = [w \in Worlds |-> {}]
  /\ received = [w \in Worlds |-> 0]
  /\ writerEnd = [w \in Worlds |-> "open"]

TwinIdle ==
  /\ rejecting = "none"
  /\ hungUp = {}
  /\ twinPc = <<>>
  /\ twinStatus = <<>>
  /\ twinRows = <<>>
  /\ received = <<>>
  /\ writerEnd = <<>>

\* how a world's run has ended, "pending" before it has
Settlement(w) ==
  CASE twinPc[w] = "resolved" -> "resolved"
    [] twinPc[w] \in {"rejected", "caught"} -> "rejected"
    [] twinPc[w] = "aborted" -> "aborted"
    [] OTHER -> "pending"

\* the outcome of a world's run
Outcome(w) == <<twinStatus[w], twinRows[w], Settlement(w)>>

\* nothing is left for the world's run to do
Ended(w) == twinPc[w] \in {"resolved", "caught", "aborted"}
(* ---------------------------------------------------------------------- *)
(* insertChunks: the records are inserted in batches by the batch runner   *)
(* ---------------------------------------------------------------------- *)

INSERT_BATCH_SIZE == 50
INSERT_CONCURRENCY == 5

\* chunks.length: none, or a number that fills its last batch or leaves it
\* with a single record
RecordCounts ==
  {0} \cup {(k - 1) * INSERT_BATCH_SIZE + r :
              k \in 1..MaxBatches, r \in {1, INSERT_BATCH_SIZE}}

\* batches.length after the slicing loop
InsBatchCount(n) == (n + INSERT_BATCH_SIZE - 1) \div INSERT_BATCH_SIZE

InsBatches == 1..InsBatchCount(insRecords)

\* chunks.slice(i, i + BATCH_SIZE).length for the b-th batch (1-based)
InsBatchLen(n, b) ==
  Min(b * INSERT_BATCH_SIZE, n) - (b - 1) * INSERT_BATCH_SIZE

\* the batches whose insert returned an error
ErrorBatches == {b \in InsBatches : insBatch[b] = "error"}

\* (variant: the results are not looked at)
ThrownError_ignored(errors) == EmptySlot

\* for (const { error } of results) if (error) throw error: the batch
\* whose error is thrown, the first in input order
ThrownError(errors) ==
  IF errors = {} THEN EmptySlot
  ELSE CHOOSE b \in errors : \A c \in errors : b <= c

\* what insertChunks does once batchAll has resolved
InsReturn(errors) ==
  /\ insThrown' = ThrownError(errors)
  /\ insPc' = IF insThrown' = EmptySlot THEN "resolved" ELSE "rejected"

\* insertChunks is called: the batches are sliced and batchAll starts its
\* workers, each of which claims a batch and calls insert for it
InsCall ==
  /\ insPc = "call"
  /\ LET nb == InsBatchCount(insRecords)
         wc == Min(INSERT_CONCURRENCY, nb)
     IN  /\ insBatch' = [b \in 1..nb |->
                           IF b <= wc THEN "inflight" ELSE "unclaimed"]
         /\ insCalls' = [b \in 1..nb |-> IF b <= wc THEN 1 ELSE 0]
         /\ insNext' = wc
         /\ IF nb = 0
              THEN InsReturn({})
              ELSE insPc' = "running" /\ UNCHANGED insThrown
  /\ UNCHANGED <<insRecords, insTable>>
  /\ UNCHANGED insOthers

\* the insert of batch b settled, with its rows inserted or with an error
\* in the result (a throw inside the try becomes { error } as well); the
\* worker claims the next batch, if there is one
InsBack(b, inserted) ==
  /\ insPc = "running"
  /\ insBatch[b] = "inflight"
  /\ insTable' = IF inserted THEN insTable \cup {b} ELSE insTable
  /\ LET outcome == IF inserted THEN "inserted" ELSE "error"
     IN  IF insNext < InsBatchCount(insRecords)
           THEN /\ insBatch' = [insBatch EXCEPT ![b] = outcome,
                                                ![insNext + 1] = "inflight"]
                /\ insCalls' = [insCalls EXCEPT ![insNext + 1] = @ + 1]
                /\ insNext' = insNext + 1
           ELSE /\ insBatch' = [insBatch EXCEPT ![b] = outcome]
                /\ UNCHANGED <<insCalls, insNext>>
  /\ UNCHANGED <<insPc, insRecords, insThrown>>
  /\ UNCHANGED insOthers

\* every worker has returned: batchAll resolves and the results are looked
\* through for an error
InsAllBack ==
  /\ insPc = "running"
  /\ \A b \in InsBatches : insBatch[b] \in {"inserted", "error"}
  /\ InsReturn(ErrorBatches)
  /\ UNCHANGED <<insRecords, insBatch, insCalls, insNext, insTable>>
  /\ UNCHANGED insOthers

\* await insertChunks(chunkRecords) in embedWikiAndCode: a rejection is
\* caught nowhere before the catch of runAnalysisPipeline
InsAwaited ==
  /\ insPc \in {"resolved", "rejected"}
  /\ insPc' = IF insPc = "resolved" THEN "setDone" ELSE "runFailed"
  /\ UNCHANGED <<insRecords, insBatch, insCalls, insNext, insTable,
                 insThrown>>
  /\ UNCHANGED insOthers

InsNext ==
  \/ InsCall
  \/ \E b \in InsBatches, inserted \in BOOLEAN : InsBack(b, inserted)
  \/ InsAllBack
  \/ InsAwaited

InsInit ==
  /\ insPc = "call"
  /\ insRecords \in RecordCounts
  /\ insBatch = <<>>
  /\ insCalls = <<>>
  /\ insNext = 0
  /\ insTable = {}
  /\ insThrown = EmptySlot

InsIdle ==
  /\ insPc = "idle"
  /\ insRecords = 0
  /\ insBatch = <<>>
  /\ insCalls = <<>>
  /\ insNext = 0
  /\ insTable = {}
  /\ insThrown = EmptySlot

\* insertChunks has settled
InsSettled == insPc \in {"resolved", "rejected", "setDone", "runFailed"}

\* insertChunks has rejected
InsRejected == insPc \in {"rejected", "runFailed"}

RECURSIVE RowsOf(_)
\* number of rows of table chunks that the batches of set S account for
RowsOf(S) ==
  IF S = {} THEN 0
  ELSE LET b == CHOOSE x \in S : TRUE
       IN  InsBatchLen(insRecords, b) + RowsOf(S \ {b})
(* ---------------------------------------------------------------------- *)
(* Chat answer: the model stream is teed into the branch returned to the   *)
(* client and the branch that collects the reply and stores it             *)
(* ---------------------------------------------------------------------- *)

Deltas == {"", "a", "b"}

\* the replies of the model: up to MaxDeltas deltas
Replies == UNION {[1..n -> Deltas] : n \in 0..MaxDeltas}

\* (variant: whatever was collected is stored)
ShouldPersist_always(content) == TRUE

\* if (fullContent): the collected reply is not the empty string
ShouldPersist(content) == content # <<>>

\* start(controller): the next delta of the model arrives; one with text is
\* enqueued, and tee() hands the chunk to both branches
ModelDelta ==
  /\ srcEnd = "open"
  /\ sent < Len(reply)
  /\ sent' = sent + 1
  /\ produced' = IF reply[sent + 1] # "" THEN Append(produced, reply[sent + 1])
                 ELSE produced
  /\ UNCHANGED <<reply, srcEnd, clientBytes, clientEnd, fullContent, savePc,
                 assistantRows>>
  /\ UNCHANGED teeOthers

\* the model stream ended: controller.close()
ModelEnd ==
  /\ srcEnd = "open"
  /\ sent = Len(reply)
  /\ srcEnd' = "closed"
  /\ UNCHANGED <<reply, sent, produced, clientBytes, clientEnd, fullContent,
                 savePc, assistantRows>>
  /\ UNCHANGED teeOthers

\* the model stream broke: start() rejects, the stream and both branches
\* are errored
ModelError ==
  /\ srcEnd = "open"
  /\ srcEnd' = "errored"
  /\ UNCHANGED <<reply, sent, produced, clientBytes, clientEnd, fullContent,
                 savePc, assistantRows>>
  /\ UNCHANGED teeOthers

\* the chunks a branch that has read n chunks still has in its queue
Queued(n) == IF srcEnd = "errored" THEN <<>> ELSE SubSeq(produced, n + 1,
                                                        Len(produced))

\* the client reads the next chunk of clientStream
ClientRead ==
  /\ clientEnd = "open"
  /\ Queued(Len(clientBytes)) # <<>>
  /\ clientBytes' = Append(clientBytes, Head(Queued(Len(clientBytes))))
  /\ UNCHANGED <<reply, sent, produced, srcEnd, clientEnd, fullContent,
                 savePc, assistantRows>>
  /\ UNCHANGED teeOthers

\* the client has read every chunk and sees how clientStream ended
ClientEnd ==
  /\ clientEnd = "open"
  /\ srcEnd # "open"
  /\ Queued(Len(clientBytes)) = <<>>
  /\ clientEnd' = srcEnd
  /\ UNCHANGED <<reply, sent, produced, srcEnd, clientBytes, fullContent,
                 savePc, assistantRows>>
  /\ UNCHANGED teeOthers

\* reader.read() of the saving branch returned a chunk
SaveRead ==
  /\ savePc = "reading"
  /\ Queued(Len(fullContent)) # <<>>
  /\ fullContent' = Append(fullContent, Head(Queued(Len(fullContent))))
  /\ UNCHANGED <<reply, sent, produced, srcEnd, clientBytes, clientEnd,
                 savePc, assistantRows>>
  /\ UNCHANGED teeOthers

\* reader.read() returned done: the reply is stored unless it is empty
SaveDone ==
  /\ savePc = "reading"
  /\ srcEnd = "closed"
  /\ Queued(Len(fullContent)) = <<>>
  /\ savePc' = IF ShouldPersist(fullContent) THEN "inserting" ELSE "skipped"
  /\ UNCHANGED <<reply, sent, produced, srcEnd, clientBytes, clientEnd,
                 fullContent, assistantRows>>
  /\ UNCHANGED teeOthers

\* reader.read() rejected, the branch being errored: the empty catch
SaveReadFail ==
  /\ savePc = "reading"
  /\ srcEnd = "errored"
  /\ savePc' = "caught"
  /\ UNCHANGED <<reply, sent, produced, srcEnd, clientBytes, clientEnd,
                 fullContent, assistantRows>>
  /\ UNCHANGED teeOthers

\* insertChatMessage resolved, at whatever time: the row exists
SaveInsertOk ==
  /\ savePc = "inserting"
  /\ assistantRows' = Append(assistantRows, fullContent)
  /\ savePc' = "saved"
  /\ UNCHANGED <<reply, sent, produced, srcEnd, clientBytes, clientEnd,
                 fullContent>>
  /\ UNCHANGED teeOthers

\* insertChatMessage rejected: the empty catch
SaveInsertFail ==
  /\ savePc = "inserting"
  /\ savePc' = "caught"
  /\ UNCHANGED <<reply, sent, produced, srcEnd, clientBytes, clientEnd,
                 fullContent, assistantRows>>
  /\ UNCHANGED teeOthers

TeeNext ==
  \/ ModelDelta
  \/ ModelEnd
  \/ ModelError
  \/ ClientRead
  \/ ClientEnd
  \/ SaveRead
  \/ SaveDone
  \/ SaveReadFail
  \/ SaveInsertOk
  \/ SaveInsertFail

\* chatWithWiki has resolved with the stream, tee() was called, the saving
\* branch awaits its first read and the Response was returned
TeeInit ==
  /\ reply \in Replies
  /\ sent = 0
  /\ produced = <<>>
  /\ srcEnd = "open"
  /\ clientBytes = <<>>
  /\ clientEnd = "open"
  /\ fullContent = <<>>
  /\ savePc = "reading"
  /\ assistantRows = <<>>

TeeIdle ==
  /\ reply = <<>>
  /\ sent = 0
  /\ produced = <<>>
  /\ srcEnd = "open"
  /\ clientBytes = <<>>
  /\ clientEnd = "open"
  /\ fullContent = <<>>
  /\ savePc = "idle"
  /\ assistantRows = <<>>
(* ---------------------------------------------------------------------- *)
(* fetchWithSWR: calls for one url over the browser cache                  *)
(* ---------------------------------------------------------------------- *)

Calls == 1..MaxCalls

NoData == "none"

\* the data of the entry that is in the cache at first, and the data the
\* network returns
OldData == "old"
NetData == "net"

NoEntry == [data |-> NoData, stale |-> FALSE]

\* the response fetchAndCache puts: x-cached-at is now
FreshEntry == [data |-> NetData, stale |-> FALSE]

\* (variant: the failure of the revalidation is ignored)
OnRevalidateError_keep(entry) == entry

\* .catch(async () => await cache.delete(url)): the entry afterwards
OnRevalidateError(entry) == NoEntry

CallGoto(c, next) == callPc' = [callPc EXCEPT ![c] = next]

\* fetchWithSWR is called: caches.open, then cache.match(url) is awaited
SwrCall(c) ==
  /\ callPc[c] = "none"
  /\ CallGoto(c, "match")
  /\ UNCHANGED <<cacheEntry, matchFound, callData, revPc, netCalls>>
  /\ UNCHANGED swrOthers

\* cache.match resolved. A fresh entry is returned; a stale one is returned
\* after fetchAndCache was started and left to itself; without an entry
\* fetchAndCache is called and its promise returned
SwrMatch(c) ==
  /\ callPc[c] = "match"
  /\ IF cacheEntry = NoEntry
       THEN /\ matchFound' = [matchFound EXCEPT ![c] = "none"]
            /\ CallGoto(c, "fetch")
            /\ netCalls' = [netCalls EXCEPT ![c] = @ + 1]
            /\ UNCHANGED <<callData, revPc>>
       ELSE IF ~cacheEntry.stale
         THEN /\ matchFound' = [matchFound EXCEPT ![c] = "fresh"]
              /\ CallGoto(c, "returned")
              /\ callData' = [callData EXCEPT ![c] = cacheEntry.data]
              /\ UNCHANGED <<revPc, netCalls>>
         ELSE /\ matchFound' = [matchFound EXCEPT ![c] = "stale"]
              /\ revPc' = [revPc EXCEPT ![c] = "fetch"]
              /\ netCalls' = [netCalls EXCEPT ![c] = @ + 1]
              /\ CallGoto(c, "returned")
              /\ callData' = [callData EXCEPT ![c] = cacheEntry.data]
  /\ UNCHANGED cacheEntry
  /\ UNCHANGED swrOthers

\* fetchAndCache awaited by the caller: fetch resolved with an ok response
CallFetchOk(c) ==
  /\ callPc[c] = "fetch"
  /\ CallGoto(c, "put")
  /\ UNCHANGED <<cacheEntry, matchFound, callData, revPc, netCalls>>
  /\ UNCHANGED swrOthers

\* fetch rejected or the response was not ok: the call throws the error
CallFetchFail(c) ==
  /\ callPc[c] = "fetch"
  /\ CallGoto(c, "threw")
  /\ UNCHANGED <<cacheEntry, matchFound, callData, revPc, netCalls>>
  /\ UNCHANGED swrOthers

\* cache.put resolved: the data is returned
CallPutBack(c) ==
  /\ callPc[c] = "put"
  /\ cacheEntry' = FreshEntry
  /\ CallGoto(c, "returned")
  /\ callData' = [callData EXCEPT ![c] = NetData]
  /\ UNCHANGED <<matchFound, revPc, netCalls>>
  /\ UNCHANGED swrOthers

\* the background fetchAndCache: fetch resolved with an ok response
RevFetchOk(c) ==
  /\ revPc[c] = "fetch"
  /\ revPc' = [revPc EXCEPT ![c] = "put"]
  /\ UNCHANGED <<cacheEntry, callPc, matchFound, callData, netCalls>>
  /\ UNCHANGED swrOthers

\* the background fetchAndCache: cache.put resolved
RevPutBack(c) ==
  /\ revPc[c] = "put"
  /\ cacheEntry' = FreshEntry
  /\ revPc' = [revPc EXCEPT ![c] = "stored"]
  /\ UNCHANGED <<callPc, matchFound, callData, netCalls>>
  /\ UNCHANGED swrOthers

\* the background fetchAndCache rejected: the catch calls cache.delete
RevFail(c) ==
  /\ revPc[c] = "fetch"
  /\ revPc' = [revPc EXCEPT ![c] = "delete"]
  /\ UNCHANGED <<cacheEntry, callPc, matchFound, callData, netCalls>>
  /\ UNCHANGED swrOthers

\* cache.delete resolved
RevDeleteBack(c) ==
  /\ revPc[c] = "delete"
  /\ cacheEntry' = OnRevalidateError(cacheEntry)
  /\ revPc' = [revPc EXCEPT ![c] = "purged"]
  /\ UNCHANGED <<callPc, matchFound, callData, netCalls>>
  /\ UNCHANGED swrOthers

\* time passes: the entry is maxAge old
EntryAges ==
  /\ cacheEntry # NoEntry
  /\ ~cacheEntry.stale
  /\ cacheEntry' = [cacheEntry EXCEPT !.stale = TRUE]
  /\ UNCHANGED <<callPc, matchFound, callData, revPc, netCalls>>
  /\ UNCHANGED swrOthers

SwrNext ==
  \/ \E c \in Calls : SwrCall(c)
  \/ \E c \in Calls : SwrMatch(c)
  \/ \E c \in Calls : CallFetchOk(c)
  \/ \E c \in Calls : CallFetchFail(c)
  \/ \E c \in Calls : CallPutBack(c)
  \/ \E c \in Calls : RevFetchOk(c)
  \/ \E c \in Calls : RevPutBack(c)
  \/ \E c \in Calls : RevFail(c)
  \/ \E c \in Calls : RevDeleteBack(c)
  \/ EntryAges

SwrInit ==
  /\ cacheEntry \in {NoEntry, [data |-> OldData, stale |-> FALSE],
                     [data |-> OldData, stale |-> TRUE]}
  /\ callPc = [c \in Calls |-> "none"]
  /\ matchFound = [c \in Calls |-> ""]
  /\ callData = [c \in Calls |-> NoData]
  /\ revPc = [c \in Calls |-> "none"]
  /\ netCalls = [c \in Calls |-> 0]

SwrIdle ==
  /\ cacheEntry = NoEntry
  /\ callPc = <<>>
  /\ matchFound = <<>>
  /\ callData = <<>>
  /\ revPc = <<>>
  /\ netCalls = <<>>
(* ---------------------------------------------------------------------- *)
(* Slugs: the module-level GithubSlugger shared by every run of a process  *)
(* ---------------------------------------------------------------------- *)

SlugRuns == {1, 2}

\* identified.id as the model may return it: empty, or a kebab-case id
FeatureIds == {"", "auth-flow"}

Titles == {"Auth", "auth", "Data Import"}

IdentifiedFeatures == [id : FeatureIds, title : Titles]

\* the slug of a title before it is made unique: lower case, blanks to "-"
Slugify(title) ==
  CASE title \in {"Auth", "auth"} -> "auth"
    [] title = "Data Import" -> "data-import"

\* a slug: `base`, followed by "-n" when n is not 0
Slug(base, n) == [base |-> base, n |-> n]

RECURSIVE SlugLoop(_, _, _)
\* GithubSlugger.slug: while the result is among the occurrences, the
\* counter of the original slug is raised and appended; the result is
\* then recorded
SlugLoop(occ, original, result) ==
  IF result \in DOMAIN occ
    THEN LET raised == [occ EXCEPT ![original] = @ + 1]
         IN  SlugLoop(raised, original,
                      Slug(original.base, raised[original]))
    ELSE [occ |-> occ @@ (result :> 0), slug |-> result]

\* slugger.slug(title) on a slugger with the given occurrences
SluggerSlug(occ, title) ==
  SlugLoop(occ, Slug(Slugify(title), 0), Slug(Slugify(title), 0))

\* const slug = identified.id || slugger.slug(identified.title), with the
\* occurrences of the slugger afterwards
SlugFor(occ, feature) ==
  IF feature.id # ""
    THEN [occ |-> occ, slug |-> Slug(feature.id, 0)]
    ELSE SluggerSlug(occ, feature.title)

\* fetchFilesAndGeneratePage of run r reaches "Persist to DB" for its next
\* feature
SlugFeature(r) ==
  /\ Len(slugs[r]) < Len(slugTopics)
  /\ LET out == SlugFor(occurrences, slugTopics[Len(slugs[r]) + 1])
     IN  /\ occurrences' = out.occ
         /\ slugs' = [slugs EXCEPT ![r] = Append(@, out.slug)]
  /\ UNCHANGED slugTopics
  /\ UNCHANGED slugOthers

SlugNext == \E r \in SlugRuns : SlugFeature(r)

\* the process has just started: new GithubSlugger()
SlugInit ==
  /\ occurrences = <<>>
  /\ slugTopics \in
       UNION {[1..n -> IdentifiedFeatures] : n \in 1..MaxSlugTopics}
  /\ slugs = [r \in SlugRuns |-> <<>>]

SlugIdle ==
  /\ occurrences = <<>>
  /\ slugTopics = <<>>
  /\ slugs = <<>>
(* ---------------------------------------------------------------------- *)
(* chunkCodeFile line by line: the blocks it cuts and their line ranges    *)
(* ---------------------------------------------------------------------- *)

\* a line of the file: white space only, a line a boundary pattern matches,
\* or any other line
LineKinds == {"blank", "boundary", "code"}

\* content.split("\n") always has a first element
LineInputs == UNION {[1..n -> LineKinds] : n \in 1..MaxLines}

\* currentLines.join("\n").trim() is the empty string
IsBlankBlock(lines, block) ==
  \A k \in 1..Len(block) : lines[block[k]] = "blank"

\* flush(): nothing happens for an empty or a blank block, currentLines
\* stays as it is; otherwise the chunks of the block are pushed, each with
\* the block's range, and currentLines is emptied
flushBlock(lines, st) ==
  IF st.currentLines = <<>> \/ IsBlankBlock(lines, st.currentLines)
    THEN st
    ELSE [st EXCEPT
            !.chunks = Append(@,
               [startLine |-> st.currentStart,
                endLine |-> st.currentStart + Len(st.currentLines) - 1,
                block |-> st.currentLines]),
            !.currentLines = <<>>]

\* the body of the for loop for line i (counted from 1)
LineStep(lines, st, i) ==
  LET cut == lines[i] = "boundary" /\ Len(st.currentLines) > 0
      flushed == IF cut THEN [flushBlock(lines, st) EXCEPT !.currentStart = i]
                 ELSE st
  IN  [flushed EXCEPT !.currentLines = Append(@, i)]

RECURSIVE LineLoop(_, _, _)
LineLoop(lines, st, i) ==
  IF i > Len(lines) THEN st
  ELSE LineLoop(lines, LineStep(lines, st, i), i + 1)

\* chunkCodeFile(filePath, content): the ranges of the chunks returned
chunkLines(lines) ==
  IF \A k \in DOMAIN lines : lines[k] = "blank"
    THEN <<>>
    ELSE flushBlock(lines,
           LineLoop(lines, [chunks |-> <<>>, currentLines |-> <<>>,
                            currentStart |-> 1], 1)).chunks

LinesCall ==
  /\ linePc = "call"
  /\ lineChunks' = chunkLines(fileLines)
  /\ linePc' = "returned"
  /\ UNCHANGED fileLines
  /\ UNCHANGED lineOthers

LineInit ==
  /\ fileLines \in LineInputs
  /\ lineChunks = <<>>
  /\ linePc = "call"

LineIdle ==
  /\ fileLines = <<>>
  /\ lineChunks = <<>>
  /\ linePc = "idle"
(* ---------------------------------------------------------------------- *)
(* Specifications                                                          *)
(* ---------------------------------------------------------------------- *)

\* the components added last, at rest
LaterIdle ==
  ReadIdle /\ TwinIdle /\ InsIdle /\ TeeIdle /\ SwrIdle /\ SlugIdle /\
    LineIdle

\* every component but the run and the unit's rows, at rest
BesideUnitIdle ==
  BatchIdle /\ ChunkIdle /\ EmbedIdle /\ ChatIdle /\ FilesIdle /\ MatchIdle
    /\ RouteIdle

BatchSpecInit ==
  BatchInit /\ ChunkIdle /\ EmbedIdle /\ PipeIdle /\ ChatIdle /\ FilesIdle
    /\ MatchIdle /\ RouteIdle /\ LaterIdle

ChunkSpecInit ==
  ChunkInit /\ BatchIdle /\ EmbedIdle /\ PipeIdle /\ ChatIdle /\ FilesIdle
    /\ MatchIdle /\ RouteIdle /\ LaterIdle

EmbedSpecInit ==
  EmbedInit /\ BatchIdle /\ ChunkIdle /\ PipeIdle /\ ChatIdle /\ FilesIdle
    /\ MatchIdle /\ RouteIdle /\ LaterIdle

PipeSpecInit ==
  PipeInit /\ BatchIdle /\ ChunkIdle /\ EmbedIdle /\ ChatIdle /\ FilesIdle
    /\ MatchIdle /\ RouteIdle /\ LaterIdle

ChatSpecInit ==
  ChatInit /\ BatchIdle /\ ChunkIdle /\ EmbedIdle /\ PipeIdle /\ FilesIdle
    /\ MatchIdle /\ RouteIdle /\ LaterIdle

FilesSpecInit ==
  FilesInit /\ BatchIdle /\ ChunkIdle /\ EmbedIdle /\ PipeIdle /\ ChatIdle
    /\ MatchIdle /\ RouteIdle /\ LaterIdle

MatchSpecInit ==
  MatchInit /\ BatchIdle /\ ChunkIdle /\ EmbedIdle /\ PipeIdle /\ ChatIdle
    /\ FilesIdle /\ RouteIdle /\ LaterIdle

RouteSpecInit ==
  RouteInit /\ BatchIdle /\ ChunkIdle /\ EmbedIdle /\ RunIdle /\ ChatIdle
    /\ FilesIdle /\ MatchIdle /\ LaterIdle

\* the components of the first specifications, at rest
EarlierIdle == BesideUnitIdle /\ PipeIdle

ReadSpecInit ==
  ReadInit /\ BesideUnitIdle /\ RunIdle /\ TwinIdle /\ InsIdle /\ TeeIdle /\
    SwrIdle /\ SlugIdle /\ LineIdle

TwinSpecInit ==
  TwinInit /\ EarlierIdle /\ ReadIdle /\ InsIdle /\ TeeIdle /\ SwrIdle /\
    SlugIdle /\ LineIdle

InsSpecInit ==
  InsInit /\ EarlierIdle /\ ReadIdle /\ TwinIdle /\ TeeIdle /\ SwrIdle /\
    SlugIdle /\ LineIdle

TeeSpecInit ==
  TeeInit /\ EarlierIdle /\ ReadIdle /\ TwinIdle /\ InsIdle /\ SwrIdle /\
    SlugIdle /\ LineIdle

SwrSpecInit ==
  SwrInit /\ EarlierIdle /\ ReadIdle /\ TwinIdle /\ InsIdle /\ TeeIdle /\
    SlugIdle /\ LineIdle

SlugSpecInit ==
  SlugInit /\ EarlierIdle /\ ReadIdle /\ TwinIdle /\ InsIdle /\ TeeIdle /\
    SwrIdle /\ LineIdle

LineSpecInit ==
  LineInit /\ EarlierIdle /\ ReadIdle /\ TwinIdle /\ InsIdle /\ TeeIdle /\
    SwrIdle /\ SlugIdle

SpecBatch == BatchSpecInit /\ [][BatchNext]_vars

\* every fn call settles, and a settled call is followed up by the event
\* loop
SpecBatchFair == SpecBatch /\ WF_vars(BatchNext)

SpecChunk == ChunkSpecInit /\ [][ChunkCall]_vars

SpecEmbed == EmbedSpecInit /\ [][EmbedStep]_vars

\* every call of the embedding service settles, and a settled call is
\* followed up by the event loop
SpecEmbedFair == SpecEmbed /\ WF_vars(EmbedStep)

SpecPipeline == PipeSpecInit /\ [][PipeNext]_vars

SpecChat == ChatSpecInit /\ [][ChatNext]_vars

SpecFiles == FilesSpecInit /\ [][FilesNext]_vars

SpecMatch == MatchSpecInit /\ [][MatchNext]_vars

SpecRoute == RouteSpecInit /\ [][RouteNext]_vars

SpecRead == ReadSpecInit /\ [][ReadNext]_vars

SpecTwin == TwinSpecInit /\ [][TwinNext]_vars

SpecInsert == InsSpecInit /\ [][InsNext]_vars

SpecTee == TeeSpecInit /\ [][TeeNext]_vars

SpecSwr == SwrSpecInit /\ [][SwrNext]_vars

SpecSlug == SlugSpecInit /\ [][SlugNext]_vars

SpecLines == LineSpecInit /\ [][LinesCall]_vars
(* ---------------------------------------------------------------------- *)
(* Properties of the batch runner (SpecBatch)                              *)
(* ---------------------------------------------------------------------- *)

\* C1: when batchAll resolves, the array it resolves to has length N and its
\* element i is fn(items[i], i), whatever the order in which the fn calls
\* completed.
C1_ResultsInInputOrder ==
  bstate = "resolved" =>
    /\ Len(returned) = N
    /\ \A i \in 0..(N - 1) : returned[i + 1] = Fn(items[i + 1], i)

\* a resolved run of 5 items with 3 workers in which a later item completed
\* before an earlier one
C1_Witness ==
  /\ bstate = "resolved"
  /\ N = 5
  /\ concurrency = 3
  /\ outOfOrder
  /\ items[1] # items[2]

C3_IndexClaimedOnce ==
  /\ \A i \in 0..(N - 1) : invoked[i] <= 1 /\ written[i] <= 1
  /\ \A w, v \in InFlight : w # v => workerIdx[w] # workerIdx[v]

\* several workers shared the items and every index was invoked and written
C3_Witness ==
  /\ bstate = "resolved"
  /\ workerCount >= 2
  /\ N > workerCount
  /\ \A i \in 0..(N - 1) : invoked[i] = 1 /\ written[i] = 1

(* ---------------------------------------------------------------------- *)
(* Properties of the chunker (SpecChunk)                                   *)
(* ---------------------------------------------------------------------- *)

\* C6: every chunk emitted by chunkCodeFile, chunkWikiContent and
\* chunkOverview has at most MAX_CHUNK_TOKENS tokens, the prepended context
\* header included, also when the header is very large.
C6_ChunkWithinBudget ==
  chunkPc = "returned" =>
    \A k \in 1..Len(chunkOutput) : chunkOutput[k].tokens <= MAX_CHUNK_TOKENS

(* ---------------------------------------------------------------------- *)
(* Properties of the embedding batcher (SpecEmbed)                         *)
(* ---------------------------------------------------------------------- *)

\* number of texts in the batches that succeeded
RECURSIVE OkTexts(_)
OkTexts(b) ==
  IF b = 0 THEN 0
  ELSE OkTexts(b - 1)
         + (IF embStatus[b] = "ok" THEN Len(BatchOf(texts, b)) ELSE 0)

\* C9: generateEmbeddings returns texts.length vectors, vector i belonging
\* to text i, when every batch succeeds; a batch whose attempts are exhausted
\* contributes no vector; and no returned result misaligns vectors with
\* texts: every returned vector i is the vector of text i.
C9_EmbeddingsAligned ==
  embState = "returned" =>
    /\ (\A b \in DOMAIN embStatus : embStatus[b] = "ok")
         => Len(embeddings) = Len(texts)
    /\ Len(embeddings) = OkTexts(BatchCount(texts))
    /\ \A j \in 1..Len(embeddings) : embeddings[j] = EmbeddingOf(texts[j])

(* ---------------------------------------------------------------------- *)
(* Properties of the pipeline (SpecPipeline)                               *)
(* ---------------------------------------------------------------------- *)

NewFeatures == {r \in featuresTable : r.run = "new"}

NewChunks == {r \in chunksTable : r.run = "new"}

FailedTopics == {i \in Topics : topicPc[i] = "failed"}

EventCount(e) == Cardinality({k \in DOMAIN events : events[k] = e})

AfterPages ==
  pc \in {"overview", "setEmbedding", "embed", "insertChunks", "setDone",
          "resolved"}

\* C4: a feature whose fetch, page generation or insert throws does not
\* abort the run: every other feature is still processed, each failed
\* feature has exactly one "(partial)" feature_done event, exactly
\* identified - failed Features are persisted, and the run, when it ends
\* without another fatal failure, ends with status done and a done event and
\* no error event.
C4_PartialFailureIsolated ==
  /\ \A i \in Topics :
       EventCount(Event("feature_done", "", i, TRUE))
         = (IF topicPc[i] = "failed" THEN 1 ELSE 0)
  /\ {r.sort_order : r \in NewFeatures} = {i \in Topics : topicPc[i] = "ok"}
  /\ (AfterPages \/ (pc = "rejected" /\ FailedTopics # {})) =>
       /\ Settled = Topics
       /\ Cardinality(NewFeatures) = identified - Cardinality(FailedTopics)
  /\ (pc = "rejected" /\ FailedTopics # {}) =>
       failCause \in {"generateOverview", "updateWikiStatus", "insertChunks"}
  /\ pc = "resolved" =>
       /\ wikiStatus = "done"
       /\ events[Len(events)] = Event("done", "", 0, FALSE)
       /\ EventCount(Event("error", "", 0, FALSE)) = 0

\* a run with one failed and one successful feature that ended done
C4_Witness ==
  /\ pc = "resolved"
  /\ identified = 2
  /\ topicPc[1] = "failed"
  /\ topicPc[2] = "ok"
  /\ wikiStatus = "done"
  /\ Cardinality(NewFeatures) = 1

\* C5: when a run fails fatally after its unit exists, the unit's persisted
\* status is error by the time runAnalysisPipeline rejects.
C5_FailedRunSetsError ==
  (pc = "rejected" /\ uPc = "done") => wikiStatus = "error"

\* C7: every chunk record inserted by the run carries the vector the
\* embedding service returned for the record's own content.
C7_RecordHasOwnVector ==
  \A r \in NewChunks : r.embedding = EmbeddingOf(r.content)

\* the texts of batch b
BatchTexts(b) == {BatchOf(texts, b)[j] : j \in 1..Len(BatchOf(texts, b))}

\* C8: when an embedding batch failed on all its attempts, no chunk record
\* is persisted for a text of that batch, the records of every other batch
\* are persisted, and the run still ends with status done.
C8_FailedBatchDropped ==
  (pc \in {"setDone", "resolved"} /\ embState = "returned") =>
    /\ \A b \in DOMAIN embStatus :
         IF embStatus[b] = "failed"
           THEN \A r \in NewChunks : r.content \notin BatchTexts(b)
           ELSE \A t \in BatchTexts(b) : \E r \in NewChunks : r.content = t
    /\ pc = "resolved" => wikiStatus = "done"

\* position of a status in the order of the state machine
Rank(status) ==
  CASE status = "absent" -> 0
    [] status = "pending" -> 1
    [] status = "fetching_tree" -> 2
    [] status = "identifying_features" -> 3
    [] status = "generating_pages" -> 4
    [] status = "embedding" -> 5
    [] status = "done" -> 6
    [] OTHER -> 7

\* C10: every status write of a run moves the unit strictly forward, except
\* the run's first write, which (re)sets the unit to pending.
C10_StatusOnlyForward ==
  [][Len(statusLog') > Len(statusLog) =>
       \/ statusLog = <<>> /\ wikiStatus' = "pending"
       \/ Rank(wikiStatus') > Rank(wikiStatus)]_vars

\* C11: a run emits exactly one terminal event and it is the run's last
\* event: a done event when runAnalysisPipeline resolves, an error event when
\* it rejects (with the error that reached the catch), never both, and none
\* while the run is under way.
C11_OneTerminalEvent ==
  LET dones == EventCount(Event("done", "", 0, FALSE))
      errors == EventCount(Event("error", "", 0, FALSE))
  IN  /\ pc = "resolved" =>
            /\ dones = 1 /\ errors = 0
            /\ events[Len(events)] = Event("done", "", 0, FALSE)
      /\ pc = "rejected" =>
            /\ errors = 1 /\ dones = 0
            /\ events[Len(events)] = Event("error", "", 0, FALSE)
            /\ failCause # "none"
      /\ pc \notin {"resolved", "rejected"} => dones = 0 /\ errors = 0

\* a run rejected because the tree fetch failed, whose upsertWiki call went
\* on and completed after the error event
C11_Witness ==
  /\ pc = "rejected"
  /\ tPc = "failed"
  /\ uPc = "done"
  /\ events[Len(events)] = Event("error", "", 0, FALSE)

\* tokens of the input of the chunker call: every block with the white space
\* around it (for a wiki page the summary and the markdown sections)
RECURSIVE InputTokens(_)
InputTokens(units) ==
  IF units = <<>> THEN 0
  ELSE untrimmed(Head(units)) + InputTokens(Tail(units))

\* tokens of the bodies of the emitted chunks, the context header stripped
RECURSIVE BodyTokens(_)
BodyTokens(chunks) ==
  IF chunks = <<>> THEN 0
  ELSE Head(chunks).body + BodyTokens(Tail(chunks))

\* C12: for code and wiki chunking the bodies of the emitted chunks, put
\* together in emission order, are the whole input: no token of the input,
\* white space between blocks included, is missing from them.
C12_BodiesReconstructInput ==
  chunkPc = "returned" =>
    /\ chunkFn = "code" =>
          BodyTokens(chunkOutput) = InputTokens(chunkInput.units)
    /\ chunkFn = "wiki" =>
          BodyTokens(chunkOutput)
            = chunkInput.summaryTokens + InputTokens(chunkInput.sections)

\* C13: a run for a unit that already exists, whatever its status, resets
\* it to pending and deletes its prior Features and Chunks before a row of
\* the new run is inserted, so that after the run the unit's rows are exactly
\* those of the new run.
C13_RerunReplacesAll ==
  /\ pc = "projectContext" => wikiStatus = "pending"
  /\ (NewFeatures # {} \/ NewChunks # {}) =>
       (OldFeature \notin featuresTable /\ OldChunk \notin chunksTable)
  /\ pc = "resolved" =>
       (featuresTable = NewFeatures /\ chunksTable = NewChunks)

\* C19 as stated: the embedding service is called at most 3 times for a
\* batch.
C19_AtMostThreeCalls ==
  \A b \in DOMAIN embAttempts : embAttempts[b] <= 3

\* C19, amended: the embedding service is called at most 4 times for a batch
\* (one call and 3 retries); a batch whose calls all failed contributes the
\* empty list; and generateEmbeddings eventually returns, whatever the
\* service does.
C19_AttemptsBoundedAndReturns ==
  /\ [](\A b \in DOMAIN embAttempts :
          /\ embAttempts[b] <= EMBED_RETRIES + 1
          /\ embStatus[b] = "failed" =>
                (embAttempts[b] = EMBED_RETRIES + 1 /\ BatchResult(b) = <<>>))
  /\ <>(embState = "returned")

\* a call returned although a batch failed on every attempt
C19_Witness ==
  /\ embState = "returned"
  /\ \E b \in DOMAIN embStatus :
       embStatus[b] = "failed" /\ embAttempts[b] = EMBED_RETRIES + 1
  /\ \E b \in DOMAIN embStatus : embStatus[b] = "ok"

(* ---------------------------------------------------------------------- *)
(* Properties of the chat route (SpecChat)                                 *)
(* ---------------------------------------------------------------------- *)

\* number of feature summaries in the context
FeatureEntries ==
  Cardinality({k \in DOMAIN contextChunks : contextChunks[k] = "feature"})

\* C14: when the semantic search returned no chunk, the context handed to
\* chatWithWiki is non-empty and holds feature summaries, at most 15 of
\* them, whether or not the wiki has an overview or the request a page
\* context (for a wiki that has features).
C14_FallbackHasSummaries ==
  (chatPc = "generate" /\ chatMatched = 0 /\ chatFeatures > 0) =>
    /\ Len(contextChunks) > 0
    /\ FeatureEntries >= 1
    /\ FeatureEntries <= FALLBACK_FEATURES

(* ---------------------------------------------------------------------- *)
(* Further properties of the pipeline (SpecPipeline)                       *)
(* ---------------------------------------------------------------------- *)

BeforeIdentified ==
  pc \in {"start", "meta", "upsertTree", "projectContext", "setIdentifying",
          "identify"}

\* C15: when identification returns an empty list the run is aborted with
\* the fatal error "No features identified": it emits no features_list,
\* feature_started or feature_done event, persists no Feature and no Chunk,
\* writes no overview and never reaches done.
C15_NoFeaturesIsFatal ==
  (identified = 0 /\ ~BeforeIdentified) =>
    /\ pc = "rejected"
    /\ failCause \in {"noFeatures", "getRepoMeta", "upsertWiki",
                      "getRepoTree", "fetchProjectContext",
                      "updateWikiStatus", "identifyFeatures"}
    /\ \A k \in DOMAIN events :
         events[k].type \notin {"features_list", "feature_started",
                                "feature_done", "done"}
    /\ NewFeatures = {} /\ NewChunks = {}
    /\ wikiOverview # "new"
    /\ failCause = "noFeatures" => wikiStatus = "identifying_features"

\* a run rejected because no feature was identified
C15_Witness ==
  /\ pc = "rejected"
  /\ failCause = "noFeatures"
  /\ identified = 0
  /\ uPc = "done"

\* C16: every successfully processed feature has exactly one persisted
\* Feature, whose sort_order is the feature's index in the identified list,
\* a failed feature has none, and the Feature list handed to the overview
\* and embedding steps lists the successful features in identified order,
\* whatever the order in which they completed.
C16_OneFeaturePerOkTopic ==
  /\ \A i \in Topics :
       Cardinality({r \in NewFeatures : r.sort_order = i})
         = (IF topicPc[i] = "ok" THEN 1 ELSE 0)
  /\ \A r \in NewFeatures : r.sort_order \in Topics
  /\ AfterPages =>
       /\ {features[k] : k \in DOMAIN features}
            = {i \in Topics : topicPc[i] = "ok"}
       /\ \A k \in 1..(Len(features) - 1) : features[k] < features[k + 1]

\* two features succeeded, the second one before the first
C16_Witness ==
  /\ AfterPages
  /\ features = <<1, 2>>
  /\ \E j, k \in DOMAIN events :
       /\ j < k
       /\ events[j] = Event("feature_done", "", 2, FALSE)
       /\ events[k] = Event("feature_done", "", 1, FALSE)

\* the chunk texts have been assembled by embedWikiAndCode
TextsAssembled == pc \in {"embed", "insertChunks", "setDone", "resolved"}

\* C17: the texts that are chunked are exactly the overview, the page of
\* every persisted Feature and every source file fetched for any feature,
\* each path once, the files fetched for a feature whose page generation or
\* insert failed later included.
C17_ChunksCoverEverything ==
  TextsAssembled =>
    LET code == {j \in DOMAIN texts : texts[j].src = "code"}
        wiki == {j \in DOMAIN texts : texts[j].src = "wiki"}
    IN  /\ {texts[j].path : j \in code} = UNION {fetched[i] : i \in Topics}
        /\ \A j, k \in code : texts[j].path = texts[k].path => j = k
        /\ {texts[j].topic : j \in wiki} = {i \in Topics : topicPc[i] = "ok"}

\* the phase of the run a position belongs to; 0 once the run has stopped
Phase(p) ==
  CASE p \in {"start", "meta", "upsertTree", "projectContext"} -> 1
    [] p \in {"setIdentifying", "identify"} -> 2
    [] p \in {"setGenerating", "pages"} -> 3
    [] p \in {"overview", "setEmbedding", "embed", "insertChunks"} -> 4
    [] p \in {"setDone", "resolved"} -> 5
    [] OTHER -> 0

\* C18: once cancellation is signalled (the client of the event stream is
\* gone) the run stops instead of executing the remaining phases: it starts
\* no further phase, and the Features and Chunks it persisted so far stay.
C18_CancelStopsRun ==
  [][clientGone =>
       /\ Phase(pc') <= Phase(pc)
       /\ NewFeatures \subseteq NewFeatures'
       /\ NewChunks \subseteq NewChunks']_vars

(* ---------------------------------------------------------------------- *)
(* Properties of the file fetch of a feature (SpecFiles)                   *)
(* ---------------------------------------------------------------------- *)

\* the cap on the files of a feature
FILE_CAP == 30

\* C20: at most 30 of a feature's candidate paths are requested from the
\* content source, however many relevantFiles the feature lists.
C20_AtMostThirtyRequested ==
  fileRequested <= FILE_CAP

(* ---------------------------------------------------------------------- *)
(* C21: getMultipleFiles never throws because of an individual file:      *)
(* whatever the outcomes of the single fetches (HTTP error status, network *)
(* failure, empty body), the call is never rejected and, once every worker *)
(* ended, it has resolved with one entry per path that had text.           *)
(* ---------------------------------------------------------------------- *)
C21_NeverThrowsPerFile ==
  /\ filesPc # "rejected"
  /\ (filesPc # "idle" /\ fileRequested > 0 /\ fileInFlight = 0)
       => filesPc = "resolved" /\ fileResults <= fileRequested

(* ---------------------------------------------------------------------- *)
(* C22: the phases of a run are strictly sequential: once the overview     *)
(* synthesis has started, every per-topic worker has settled and no file   *)
(* fetch, page generation, Topic insert or feature event occurs any more;  *)
(* embedding starts only after the overview is persisted; the run ends     *)
(* with status done only after every Passage record was inserted.          *)
(* ---------------------------------------------------------------------- *)
\* generateOverviewAndEmbed was entered: its status event, the second
\* generating_pages event of the run, was emitted
OverviewStarted == EventCount(StatusEvent("generating_pages")) >= 2

FeatureEvents ==
  SelectSeq(events,
            LAMBDA e : e.type \in {"feature_started", "feature_done"})

C22_PhasesSequential ==
  /\ [](OverviewStarted => Settled = Topics)
  /\ [](embState # "idle" => wikiOverview = "new")
  /\ [](pc = "resolved" => chunkRecords \subseteq chunksTable)
  /\ [][OverviewStarted =>
          /\ topicPc' = topicPc
          /\ fetched' = fetched
          /\ lateFetches' = lateFetches
          /\ NewFeatures' = NewFeatures
          /\ FeatureEvents' = FeatureEvents]_vars

(* ---------------------------------------------------------------------- *)
(* C23: chunkCodeFile returns zero chunks for empty or white-space-only    *)
(* content, and exactly one chunk, holding the whole trimmed file, for a   *)
(* non-empty file without a boundary line whose header plus body fits      *)
(* MAX_CHUNK_TOKENS.                                                       *)
(* ---------------------------------------------------------------------- *)
\* the content is empty or white space only: no block has text
BlankFile == \A k \in DOMAIN chunkInput.units : chunkInput.units[k].raw = 0

\* no line is a boundary line: all lines are one block that starts at line 1
\* and has no symbol, and this block has text
NoBoundaryFile ==
  /\ Len(chunkInput.units) = 1
  /\ chunkInput.units[1].isImportOnly
  /\ chunkInput.units[1].raw > 0

FitsBudget ==
  chunkInput.fileHeader + chunkInput.units[1].raw <= MAX_CHUNK_TOKENS

C23_BlankZeroWholeOne ==
  (chunkFn = "code" /\ chunkPc = "returned") =>
    /\ BlankFile => chunkOutput = <<>>
    /\ (NoBoundaryFile /\ FitsBudget) =>
         /\ Len(chunkOutput) = 1
         /\ chunkOutput[1].body = chunkInput.units[1].raw
         /\ chunkOutput[1].tokens <= MAX_CHUNK_TOKENS

C23_Witness ==
  /\ chunkFn = "code" /\ chunkPc = "returned"
  /\ NoBoundaryFile
  /\ chunkInput.fileHeader + chunkInput.units[1].raw = MAX_CHUNK_TOKENS
  /\ Len(chunkOutput) = 1

(* ---------------------------------------------------------------------- *)
(* C24: the similarity search returns at most K passages, all of the       *)
(* requested unit, each with a cosine similarity strictly greater than the *)
(* threshold T, in order of non-increasing similarity; the search route    *)
(* passes K = 10 and T = 0.5, the chat route K = 8 and T = 0.5.            *)
(* ---------------------------------------------------------------------- *)
RouteK == IF matchRoute = "search" THEN 10 ELSE 8

C25_DoneIsServedFromCache ==
  /\ [](\A r \in Requests : reqPc[r] = "cached" => stream[r] = <<>>)
  /\ [][\A r \in Requests :
          /\ (reqPc[r] = "getWiki" /\ wikiStatus = "done"
                /\ reqPc'[r] # "getWiki") =>
               /\ reqPc'[r] = "cached"
               /\ unitRows' = unitRows
          /\ reqPc[r] = "cached" =>
               /\ reqPc'[r] = "cached"
               /\ stream'[r] = stream[r]]_vars

\* a request was served from the cache that the run of another request
\* had filled
C25_Witness ==
  \E r, q \in Requests :
    /\ reqPc[r] = "cached"
    /\ reqPc[q] = "closed"
    /\ wikiStatus = "done"
    /\ FeatureRow(q) \in featuresTable

(* ---------------------------------------------------------------------- *)
(* C29: for each failed run started by POST /api/analyze, the event stream *)
(* carries exactly one error event, and it is the last event written       *)
(* before the stream is closed.                                            *)
(* ---------------------------------------------------------------------- *)
ErrorEvents(r) ==
  Cardinality({k \in DOMAIN stream[r] : stream[r][k] = "error"})

C29_OneErrorOnStream ==
  \A r \in Requests :
    (reqPc[r] = "closed" /\ ErrorEvents(r) > 0) =>
      /\ ErrorEvents(r) = 1
      /\ stream[r][Len(stream[r]) - 1] = "error"
      /\ stream[r][Len(stream[r])] = "close"

(* ---------------------------------------------------------------------- *)
(* C30: at most one analysis run is in progress for a repository at any    *)
(* time: a POST /api/analyze that arrives while the unit has a non-final   *)
(* status starts no second run.                                            *)
(* ---------------------------------------------------------------------- *)
C30_AtMostOneRun == Cardinality(Running) <= 1

(* ---------------------------------------------------------------------- *)
(* C26: for every topic processed in a run exactly one feature_started     *)
(* event is emitted and later exactly one feature_done event (partial or   *)
(* not), the started event before the done event of the same topic; all of *)
(* them come after the features_list event and before the status event of  *)
(* the overview generation.                                                *)
(* ---------------------------------------------------------------------- *)
EventsAt(type, i) ==
  {k \in DOMAIN events : events[k].type = type /\ events[k].topic = i}

FeaturesListAt == {k \in DOMAIN events : events[k].type = "features_list"}

\* the status event generateOverviewAndEmbed starts with: the second
\* generating_pages event of the run
OverviewEventAt ==
  {k \in DOMAIN events :
     /\ events[k] = StatusEvent("generating_pages")
     /\ \E j \in 1..(k - 1) : events[j] = StatusEvent("generating_pages")}

C26_FeatureEventsPaired ==
  LET lists == FeaturesListAt
      overview == OverviewEventAt
      announced == OverviewStarted
  IN  \A i \in Topics :
        LET s == EventsAt("feature_started", i)
            d == EventsAt("feature_done", i)
        IN  /\ Cardinality(s) = (IF topicPc[i] = "unclaimed" THEN 0 ELSE 1)
            /\ Cardinality(d)
                 = (IF topicPc[i] \in {"ok", "failed"} THEN 1 ELSE 0)
            /\ \A k \in d : /\ \E j \in s : j < k
                            /\ events[k].partial = (topicPc[i] = "failed")
            /\ \A k \in s \cup d : /\ \E l \in lists : l < k
                                   /\ \A o \in overview : k < o
            /\ announced => (Cardinality(s) = 1 /\ Cardinality(d) = 1)

\* two topics, the second done before the first, one of them partial, and
\* the overview generation announced
C26_Witness ==
  /\ OverviewStarted
  /\ identified = 2
  /\ \E k \in EventsAt("feature_done", 2) :
       \E j \in EventsAt("feature_done", 1) : k < j
  /\ \E i \in Topics : topicPc[i] = "failed"
  /\ \E i \in Topics : topicPc[i] = "ok"

(* ---------------------------------------------------------------------- *)
(* C27: the source-file map handed to the embedding phase holds the paths  *)
(* fetched by the successful topics, each once; for a path that several    *)
(* successful topics fetched, the content kept is that of the topic latest *)
(* in identified order, whatever the order in which the topics completed.  *)
(* ---------------------------------------------------------------------- *)
\* the successful topics that fetched the path
FetchedBy(path) == {i \in Topics : topicPc[i] = "ok" /\ path \in fetched[i]}

C27_LatestTopicWins ==
  AfterPages =>
    /\ DOMAIN sourceFiles = {path \in UNION {fetched[i] : i \in Topics} :
                               FetchedBy(path) # {}}
    /\ \A path \in DOMAIN sourceFiles :
         \E i \in FetchedBy(path) :
           /\ \A j \in FetchedBy(path) : j <= i
           /\ sourceFiles[path] = FileContent(path, i)

\* two successful topics fetched the same path and the later one in input
\* order completed first
C27_Witness ==
  /\ AfterPages
  /\ \E path \in DOMAIN sourceFiles :
       /\ FetchedBy(path) = {1, 2}
       /\ sourceFiles[path] = FileContent(path, 2)
  /\ \E k \in EventsAt("feature_done", 2) :
       \E j \in EventsAt("feature_done", 1) : k < j

(* ---------------------------------------------------------------------- *)
(* C28: in a successful run the persisted status of the unit takes the     *)
(* values pending, fetching_tree, identifying_features, generating_pages,  *)
(* embedding, done, each exactly once and in this order; fetching_tree is  *)
(* persisted while the context is gathered. Stated for the runs that begin *)
(* by setting the unit to pending (new units and units not yet done).      *)
(* ---------------------------------------------------------------------- *)
C28_StatusSequence ==
  (pc = "resolved" /\ statusLog[1] = "pending") =>
    statusLog = <<"pending", "fetching_tree", "identifying_features",
                  "generating_pages", "embedding", "done">>

(* ---------------------------------------------------------------------- *)
(* C31: a search or chat request calls the embedding service and the      *)
(* similarity search only if the status it read for the unit was done; a  *)
(* request that read any other status (pending .. embedding, error), or   *)
(* found no unit, is answered 404 and has called neither.                 *)
(* ---------------------------------------------------------------------- *)
C31_ReadsOnlyDoneUnits ==
  \A r \in Readers :
    /\ readCalls[r] # <<>> => readSeen[r] = "done"
    /\ readSeen[r] \notin {"none", "done"} =>
         /\ readPc[r] = "sent"
         /\ readHttp[r] = 404
         /\ readCalls[r] = <<>>

\* one request refused for a unit that was still embedding, another served
\* after the unit became done, by both services
C31_Witness ==
  \E r \in Readers : \E q \in Readers :
    /\ readSeen[r] = "embedding"
    /\ readHttp[r] = 404
    /\ readHttp[q] = 200
    /\ readCalls[q] = <<"generateEmbeddings", "matchChunks">>

(* ---------------------------------------------------------------------- *)
(* C32: batchAll is rejected exactly when some fn call rejected, with the  *)
(* rejection of the first call that did; the worker whose call rejected    *)
(* claims no further index; the other workers are not cancelled: after the *)
(* rejection each call still in flight can settle, and a worker whose call *)
(* resolves goes on to claim the next index and invoke fn on it.           *)
(* ---------------------------------------------------------------------- *)
C32_RejectsWithFirstOthersGoOn ==
  /\ [](bstate = "rejected"
          <=> \E w \in DOMAIN workerIdx : workerIdx[w] = WorkerRejected)
  /\ [](bstate = "rejected" =>
          /\ thrown >= 0
          /\ FnRejects(items[thrown + 1], thrown)
          /\ \A w \in InFlight : ENABLED (FnResolve(w) \/ FnReject(w)))
  /\ [][\A w \in DOMAIN workerIdx :
          /\ workerIdx[w] = WorkerRejected => workerIdx'[w] = WorkerRejected
          /\ (workerIdx[w] >= 0 /\ workerIdx'[w] = WorkerRejected) =>
               /\ nextIndex' = nextIndex
               /\ invoked' = invoked
               /\ bstate' = "rejected"
               /\ thrown' = IF bstate = "rejected" THEN thrown
                                                   ELSE workerIdx[w]
          /\ bstate = "rejected" => (bstate' = "rejected" /\ thrown' = thrown)
          /\ (/\ bstate = "rejected"
              /\ workerIdx[w] >= 0
              /\ workerIdx'[w] \notin {workerIdx[w], WorkerRejected}) =>
               IF nextIndex < N
                 THEN /\ workerIdx'[w] = nextIndex
                      /\ nextIndex' = nextIndex + 1
                      /\ invoked'[nextIndex] = invoked[nextIndex] + 1
                 ELSE workerIdx'[w] = WorkerDone]_vars

\* the call on the first item rejected, batchAll rejected with it, and the
\* second worker has gone through every other index
C32_Witness ==
  /\ bstate = "rejected"
  /\ concurrency = 2
  /\ N >= 4
  /\ thrown = 0
  /\ workerIdx = <<WorkerRejected, WorkerDone>>
  /\ \A i \in DOMAIN invoked : invoked[i] = 1
  /\ settledCount = N - 1

C35_AllFailedNotFatal ==
  (identified > 0 /\ FailedTopics = Topics) =>
    /\ NewFeatures = {}
    /\ AfterPages => features = <<>>
    /\ pc = "rejected" =>
         failCause \in {"generateOverview", "updateWikiStatus", "insertChunks"}
    /\ pc = "resolved" =>
         /\ wikiStatus = "done"
         /\ statusLog[Len(statusLog)] = "done"
         /\ events[Len(events)] = Event("done", "", 0, FALSE)

\* a run all of whose features failed and that ended done
C35_Witness ==
  /\ pc = "resolved"
  /\ identified = MaxTopics
  /\ FailedTopics = Topics
  /\ features = <<>>
  /\ wikiStatus = "done"
  /\ featuresTable = {}
  /\ NewChunks # {}

(* ---------------------------------------------------------------------- *)
(* Properties of event delivery (SpecTwin)                                 *)
(* ---------------------------------------------------------------------- *)

\* C34: the outcome of a run started by /api/analyze (persisted status,
\* persisted rows, resolve or reject of runAnalysisPipeline) does not
\* depend on event delivery: two runs served alike, of which any client may
\* have disconnected at any time, have the same outcome whenever they are
\* at the same await and when both have ended, and a failed write never
\* ends a run.
C34_OutcomeIgnoresDelivery ==
  /\ \A w, u \in Worlds :
       (twinPc[w] = twinPc[u] \/ (Ended(w) /\ Ended(u)))
         => Outcome(w) = Outcome(u)
  /\ \A w \in Worlds : Settlement(w) # "aborted"

\* one client stayed and got every event, the other left half-way: both
\* runs ended with the unit done
C34_Witness ==
  /\ hungUp = {2}
  /\ twinPc = [w \in Worlds |-> "resolved"]
  /\ twinStatus[2] = "done"
  /\ twinRows[2] = {"features", "chunks"}
  /\ received[1] = Len(TwinAwaits)
  /\ received[2] = 3
  /\ writerEnd = <<"closed", "rejected">>

(* ---------------------------------------------------------------------- *)
(* Properties of insertChunks (SpecInsert)                                 *)
(* ---------------------------------------------------------------------- *)

\* C36: insertChunks attempts every batch of at most 50 records exactly
\* once; it rejects if and only if at least one batch reported an error,
\* only after all batches were attempted, and the batches already inserted
\* stay, so a rejection ends the run fatally with the rows of the other
\* batches persisted.
C36_AllBatchesThenReject ==
  /\ insPc # "call" =>
       /\ \A b \in InsBatches :
            /\ InsBatchLen(insRecords, b) \in 1..INSERT_BATCH_SIZE
            /\ insCalls[b] = (IF insBatch[b] = "unclaimed" THEN 0 ELSE 1)
       /\ RowsOf(InsBatches) = insRecords
       /\ insTable = {b \in InsBatches : insBatch[b] = "inserted"}
  /\ InsSettled =>
       /\ \A b \in InsBatches : insBatch[b] \in {"inserted", "error"}
       /\ InsRejected <=> ErrorBatches # {}
       /\ InsRejected => insThrown \in ErrorBatches
       /\ RowsOf(insTable) = insRecords - RowsOf(ErrorBatches)
  /\ insPc = "setDone" => ErrorBatches = {}
  /\ insPc = "runFailed" => insTable = InsBatches \ ErrorBatches

\* more batches than workers, the second and the last batch failed: the
\* call rejected after the last batch, the run failed, and the rows of the
\* other batches are in the table
C36_Witness ==
  /\ insPc = "runFailed"
  /\ insRecords = (MaxBatches - 1) * INSERT_BATCH_SIZE + 1
  /\ ErrorBatches = {2, MaxBatches}
  /\ insThrown = 2
  /\ insTable = InsBatches \ {2, MaxBatches}
  /\ RowsOf(insTable) = (MaxBatches - 2) * INSERT_BATCH_SIZE

(* ---------------------------------------------------------------------- *)
(* Properties of the chat answer (SpecTee)                                 *)
(* ---------------------------------------------------------------------- *)

\* the deltas of the reply that carry text
TextDeltas == SelectSeq(reply, LAMBDA d : d # "")

\* C37: the assistant reply is stored at most once per request, only after
\* the model stream has ended and only if it is not empty; and whatever the
\* saving branch does (reading, waiting for the insert, failed), the client
\* can read every chunk the stream has produced, reads them unaltered and
\* in order, and sees the stream end when the model stream ended.
C37_SaveNeverTouchesClient ==
  /\ Len(assistantRows) <= 1
  /\ (savePc \in {"inserting", "saved"} \/ assistantRows # <<>>) =>
       /\ srcEnd = "closed"
       /\ fullContent = TextDeltas
       /\ fullContent # <<>>
  /\ assistantRows # <<>> => assistantRows = <<TextDeltas>>
  /\ clientBytes = SubSeq(produced, 1, Len(clientBytes))
  /\ (clientEnd = "open" /\ srcEnd # "errored"
        /\ Len(clientBytes) < Len(produced)) => ENABLED ClientRead
  /\ (clientEnd = "open" /\ srcEnd # "open"
        /\ Queued(Len(clientBytes)) = <<>>) => ENABLED ClientEnd
  /\ clientEnd = "closed" => clientBytes = TextDeltas
  /\ clientEnd = "errored" => srcEnd = "errored"

\* the client has the whole reply and has seen the stream close although
\* the insert of the reply failed
C37_Witness ==
  /\ Len(reply) = MaxDeltas
  /\ savePc = "caught"
  /\ srcEnd = "closed"
  /\ fullContent = produced
  /\ Len(produced) >= 2
  /\ clientEnd = "closed"
  /\ clientBytes = produced
  /\ assistantRows = <<>>

(* ---------------------------------------------------------------------- *)
(* Properties of fetchWithSWR (SpecSwr)                                    *)
(* ---------------------------------------------------------------------- *)

\* C38: a call that finds an entry older than maxAge returns the cached
\* data at once, without waiting for the network, and starts one background
\* revalidation; when that revalidation fails the entry is deleted, so that
\* a call made next finds no entry, goes to the network and returns what
\* the network gives or throws its error, instead of the stale data.
C38_StaleOnceThenNetwork ==
  /\ [](\A c \in Calls :
          /\ netCalls[c] <= 1
          /\ matchFound[c] = "stale" =>
               /\ callPc[c] = "returned"
               /\ callData[c] # NoData
               /\ netCalls[c] = 1
               /\ revPc[c] # "none"
          /\ matchFound[c] = "none" =>
               /\ callPc[c] \in {"fetch", "put", "returned", "threw"}
               /\ netCalls[c] = 1
               /\ revPc[c] = "none"
               /\ callPc[c] = "returned" => callData[c] = NetData
          /\ callPc[c] = "threw" => matchFound[c] = "none")
  /\ [][\A c \in Calls :
          /\ (callPc[c] = "match" /\ callPc'[c] # "match") =>
               IF cacheEntry = NoEntry
                 THEN callPc'[c] = "fetch" /\ callData'[c] = NoData
               ELSE /\ callPc'[c] = "returned"
                    /\ callData'[c] = cacheEntry.data
                    /\ revPc'[c] = (IF cacheEntry.stale THEN "fetch"
                                    ELSE "none")
          /\ (revPc[c] = "fetch" /\ revPc'[c] # "fetch") =>
               revPc'[c] \in {"put", "delete"}
          /\ (revPc[c] = "delete" /\ revPc'[c] # "delete") =>
               revPc'[c] = "purged" /\ cacheEntry' = NoEntry]_vars

\* the first call got the stale data and its revalidation failed; the
\* second call matchFound no entry, went to the network and threw
C38_Witness ==
  /\ matchFound[1] = "stale"
  /\ callData[1] = OldData
  /\ revPc[1] = "purged"
  /\ matchFound[2] = "none"
  /\ callPc[2] = "threw"
  /\ cacheEntry = NoEntry

(* ---------------------------------------------------------------------- *)
(* Properties of the slugs (SpecSlug)                                      *)
(* ---------------------------------------------------------------------- *)

\* C39: the slug of a persisted Feature is a function of the identified
\* feature's id and title only: two runs of one process that handle the
\* same identified features give each of them the same slug, whatever was
\* slugged earlier in the process.
C39_SlugOfIdAndTitleOnly ==
  \A r, q \in SlugRuns :
    \A k \in DOMAIN slugs[r] \cap DOMAIN slugs[q] : slugs[r][k] = slugs[q][k]

(* ---------------------------------------------------------------------- *)
(* Properties of the line ranges of chunkCodeFile (SpecLines)              *)
(* ---------------------------------------------------------------------- *)

\* C40: for every chunk chunkCodeFile returns, 1 <= startLine <= endLine <=
\* number of lines of the file, the lines startLine..endLine are exactly
\* the lines its block was built from, and the ranges of different blocks
\* do not overlap, also when blank lines precede a boundary line.
C40_LineRangesExact ==
  \A k \in DOMAIN lineChunks :
    LET c == lineChunks[k]
    IN  /\ 1 <= c.startLine
        /\ c.startLine <= c.endLine
        /\ c.endLine <= Len(fileLines)
        /\ c.block = [j \in 1..(c.endLine - c.startLine + 1) |->
                        c.startLine + j - 1]
        /\ \A m \in DOMAIN lineChunks :
             m # k => \/ lineChunks[m].endLine < c.startLine
                      \/ c.endLine < lineChunks[m].startLine

====
